---- MODULE Spec2Model ----
(***************************************************************************)
(* Model of the discovery / resolution / ranking pipeline of               *)
(* social-product-reviews: the orchestrator runPipeline, the entity        *)
(* resolver resolveEntities (fuzzyMerge + geminiResolve), the ranker       *)
(* rankCandidates, the intent parser parseIntent, the candidate generator  *)
(* generateCandidates, and the retriever utilities checkRateLimit,         *)
(* withRetry and CircuitBreaker with the retrievers that call it.          *)
(*                                                                         *)
(* Strings that the code inspects character by character (brand, model,    *)
(* tags, intent terms) are sequences of one-character strings.  Opaque     *)
(* strings (status names, error messages, platforms) are TLA+ strings.     *)
(***************************************************************************)
EXTENDS Integers, Sequences, FiniteSets, TLC

VARIABLES
    \* ---- persistence store + orchestrator runs (runPipeline) ----
    status,          \* status column of the Query row
    parsedIntent,    \* parsedIntent column of the Query row
    rankingResults,  \* rows created by prisma.rankingResult.create
    searchLog,       \* the calls of logSearch: which run logged which status
    runs,            \* per invocation of runPipeline: its locals and position
    \* ---- resolveEntities on its own ----
    rpc, rInput, rFuzzy, rOutput, rResponse,
    rSent,           \* history: the candidates geminiResolve listed in its prompt
    \* ---- rankCandidates on its own ----
    kpc, kCandidates, kEvidence, kIntent, kTop10, kResult,
    \* ---- retriever utilities: checkRateLimit ----
    now,             \* Date.now()
    requestLog,      \* platform -> timestamps of the requests in the window
    maxRequests,     \* the maxRequests argument the callers pass
    windowMs,        \* the windowMs argument the callers pass
    permitted,       \* history: platform -> times of all permitted calls
    lastCheck,       \* history: the last call of checkRateLimit and its result
    \* ---- retriever utilities: withRetry ----
    retry,           \* one call of withRetry: its arguments, locals and outcome
    \* ---- intent parser: parseIntent ----
    intentCall,      \* one call of parseIntent: raw query, LLM outcome, result
    \* ---- candidate generator: generateCandidates, aggregateProducts ----
    gen,             \* one call of generateCandidates: adapters, locals, result
    agg,             \* one call of aggregateProducts: its argument and result
    \* ---- scraper utilities: CircuitBreaker and its callers ----
    failures,        \* CircuitBreaker.failures: source -> record
    clock,           \* Date.now() as the circuit breaker reads it
    failureLog,      \* history: source -> times of the failures since the last success
    lastCall,        \* history: the last call of a CircuitBreaker method
    used,            \* history: calls made and clock advances taken so far
    retrieval,       \* one call of a retriever: its source, position and last attempt
    \* ---- scraper rate limiter: token buckets and waitForRateLimit ----
    buckets,         \* the Map buckets: domain -> token bucket
    bucketClock,     \* Date.now() of the rate limiter; history: advances, admissions
    waiters,         \* the callers of waitForRateLimit: position, wake-up time
    \* ---- evidence extractor: extractForProduct ----
    evCall           \* one call of extractForProduct: mentions, LLM outcome, result

orchVars == <<status, parsedIntent, rankingResults, searchLog, runs>>
resolveVars == <<rpc, rInput, rFuzzy, rOutput, rResponse, rSent>>
rankVars == <<kpc, kCandidates, kEvidence, kIntent, kTop10, kResult>>
limitVars == <<now, requestLog, maxRequests, windowMs, permitted, lastCheck>>
genVars == <<gen, agg>>
breakerVars == <<failures, clock, failureLog, lastCall, used, retrieval>>
bucketVars == <<buckets, bucketClock, waiters>>
libVars == <<limitVars, retry, intentCall, genVars, breakerVars, bucketVars, evCall>>
vars == <<orchVars, resolveVars, rankVars, libVars>>

----------------------------------------------------------------------------
(* Bounds of the model                                                     *)

MaxResolveLen == 3    \* longest enumerated candidate list given to resolveEntities
MaxPrefix == 2        \* enumerated candidates in front of the filler candidates
MaxMentions == 2      \* largest mentionCount of an enumerated input candidate
MaxGroups == 2        \* most merge groups in one LLM response
MaxRankLen == 11      \* longest candidate list given to rankCandidates
NumRuns == 2          \* invocations of runPipeline
MaxCopies == 4        \* most copies of one evidence item in an evidence list
MaxScoreMentions == 11 \* largest mentionCount of a scored candidate
MaxTime == 4          \* last value of the clock Date.now()
MaxRequestsArg == 2   \* largest maxRequests given to checkRateLimit
MaxWindowArg == 3     \* largest windowMs given to checkRateLimit
MaxPermitted == 4     \* most permitted calls of checkRateLimit in a behaviour
MaxRetriesArg == 4    \* largest maxRetries given to withRetry
MaxFailures == 6      \* most failures of fn before it succeeds
MaxSeedTerms == 6     \* most seed terms in an LLM response
MaxChunks == 3        \* most chunks of mentions in one call of generateCandidates
MaxRedditMentions == 2 \* most mentions the reddit adapter returns
MaxRefs == 3          \* longest reference list given to aggregateProducts on its own
MaxBreakerCalls == 7  \* most calls of CircuitBreaker methods in a behaviour
MaxAdvances == 2      \* most advances of the circuit breaker's clock in a behaviour
MaxTerms == 3         \* most search terms given to one call of a retriever
NumCallers == 3       \* concurrent callers of waitForRateLimit
MaxBucketAdvances == 2 \* most advances of the rate limiter's clock in a behaviour
MaxWaitCalls == 4     \* most calls of waitForRateLimit in a behaviour

(* Program constants                                                       *)

GeminiThreshold == 20 \* fuzzyMerged.length > 20
DefaultBaseDelayMs == 1000  \* baseDelayMs = 1000 / initialDelayMs = 1000
DefaultMaxDelayMs == 10000  \* maxDelayMs = 10000
DefaultMaxRetries == 3 \* const { maxRetries = 3, ... } = options
MinSeedTerms == 5     \* result.seedTerms.length < 5
BATCH_SIZE == 30      \* const BATCH_SIZE = 30
threshold == 5        \* CircuitBreaker.threshold
resetTimeMs == 300000 \* CircuitBreaker.resetTimeMs = 5 * 60 * 1000
TokenUnit == 2000     \* a token is counted in 2000ths, so that every refill is whole
TopSlice == 80        \* candidates.slice(0, 80)
TopN == 10            \* scored.slice(0, 10)

----------------------------------------------------------------------------
(* Generic helpers on sequences                                            *)

Min(a, b) == IF a < b THEN a ELSE b
Max(a, b) == IF a > b THEN a ELSE b

SeqsUpTo(S, n) == UNION {[1..k -> S] : k \in 0..n}

\* reduce((sum, x) => sum + x, 0); the sum of a list is the sum of its halves
RECURSIVE SumSeq(_)
SumSeq(s) ==
    IF Len(s) = 0 THEN 0
    ELSE IF Len(s) = 1 THEN s[1]
    ELSE LET half == Len(s) \div 2
         IN SumSeq(SubSeq(s, 1, half)) + SumSeq(SubSeq(s, half + 1, Len(s)))

RECURSIVE Flatten(_)
Flatten(ss) == IF ss = <<>> THEN <<>> ELSE Head(ss) \o Flatten(Tail(ss))

Range(s) == {s[i] : i \in 1..Len(s)}

\* [...new Set(xs)]: first occurrences, in order
Dedup(s) ==
    LET firsts == SelectSeq([i \in 1..Len(s) |-> i],
                            LAMBDA i : \A j \in 1..(i - 1) : s[j] # s[i])
    IN [k \in 1..Len(firsts) |-> s[firsts[k]]]

\* Array.prototype.slice(from, to) with 0-based from (inclusive) and to (exclusive)
Slice(s, from, to) == SubSeq(s, from + 1, Min(to, Len(s)))

----------------------------------------------------------------------------
(* Character level string functions                                        *)

UpperChars == <<"A","B","C","D","E","F","G","H","I","J","K","L","M",
                "N","O","P","Q","R","S","T","U","V","W","X","Y","Z">>
LowerChars == <<"a","b","c","d","e","f","g","h","i","j","k","l","m",
                "n","o","p","q","r","s","t","u","v","w","x","y","z">>
DigitChars == {"0","1","2","3","4","5","6","7","8","9"}
SpaceChars == {" ", "\t"}

toLowerChar(c) ==
    IF \E i \in 1..26 : UpperChars[i] = c
    THEN LowerChars[CHOOSE i \in 1..26 : UpperChars[i] = c]
    ELSE c

\* String.prototype.toLowerCase
toLowerCase(s) == [i \in 1..Len(s) |-> toLowerChar(s[i])]

IsKeptChar(c) == c \in Range(LowerChars) \cup DigitChars \cup SpaceChars

\* .replace(/\s+/g, " "): every run of whitespace leaves one space, written
\* where the run ends
CollapseSpaces(s) ==
    LET ends == SelectSeq([i \in 1..Len(s) |-> i],
                          LAMBDA i : s[i] \in SpaceChars =>
                                         (i = Len(s) \/ s[i + 1] \notin SpaceChars))
    IN [k \in 1..Len(ends) |-> IF s[ends[k]] \in SpaceChars THEN " " ELSE s[ends[k]]]

\* String.prototype.trim
Trim(s) ==
    LET inked == {i \in 1..Len(s) : s[i] \notin SpaceChars}
    IN IF inked = {} THEN <<>>
       ELSE SubSeq(s, CHOOSE i \in inked : \A j \in inked : i <= j,
                      CHOOSE i \in inked : \A j \in inked : i >= j)

\* normalize(brand, model)
normalize(brand, model) ==
    Trim(CollapseSpaces(SelectSeq(toLowerCase(brand \o <<" ">> \o model), IsKeptChar)))

\* String.prototype.includes
includes(a, b) ==
    \E i \in 0..(Len(a) - Len(b)) : SubSeq(a, i + 1, i + Len(b)) = b

\* a.split(" "): the pieces between single spaces ("" gives one empty piece)
split(s) ==
    LET cuts == <<0>> \o SelectSeq([i \in 1..Len(s) |-> i], LAMBDA i : s[i] = " ")
                     \o <<Len(s) + 1>>
    IN [k \in 1..(Len(cuts) - 1) |-> SubSeq(s, cuts[k] + 1, cuts[k + 1] - 1)]

\* isSimilar(a, b): equal, one contains the other, or token Jaccard > 0.7
isSimilar(a, b) ==
    \/ a = b
    \/ includes(a, b) \/ includes(b, a)
    \/ LET tokensA == Range(split(a))
           tokensB == Range(split(b))
           intersection == Cardinality(tokensA \cap tokensB)
           union == Cardinality(tokensA \cup tokensB)
       IN 10 * intersection > 7 * union

----------------------------------------------------------------------------
(* Entity resolver                                                         *)

\* Array.prototype.sort((a, b) => b.mentionCount - a.mentionCount): the sort
\* is stable, so an element lands behind every element with more mentions
\* and behind the earlier elements with as many
SortByMentionsDesc(s) ==
    LET before == [i \in 1..Len(s) |->
                     Cardinality({j \in 1..Len(s) :
                        \/ s[j].mentionCount > s[i].mentionCount
                        \/ s[j].mentionCount = s[i].mentionCount /\ j < i})]
    IN [p \in 1..Len(s) |-> s[CHOOSE i \in 1..Len(s) : before[i] = p - 1]]

\* mergeGroup(group)
\* mergeGroup(group) without the sort: the first member is the canonical one
mergeGroup_FirstIsCanonical(group) ==
    [group[1] EXCEPT
       !.mentionCount = SumSeq([i \in 1..Len(group) |-> group[i].mentionCount]),
       !.sources = Dedup(Flatten([i \in 1..Len(group) |-> group[i].sources]))]

\* mergeGroup(group)
mergeGroup(group) ==
    LET sorted == SortByMentionsDesc(group)
        canonical == sorted[1]
        totalMentions == SumSeq([i \in 1..Len(sorted) |-> sorted[i].mentionCount])
        allSources == Dedup(Flatten([i \in 1..Len(sorted) |-> sorted[i].sources]))
    IN [canonical EXCEPT !.mentionCount = totalMentions, !.sources = allSources]

\* index of the first group whose first member is similar, 0 if none
FirstSimilarGroup(groups, candidate) ==
    LET normKey == normalize(candidate.brand, candidate.model)
        hits == {g \in 1..Len(groups) :
                    isSimilar(normKey, normalize(groups[g][1].brand, groups[g][1].model))}
    IN IF hits = {} THEN 0 ELSE CHOOSE g \in hits : \A h \in hits : g <= h

\* an iteration that never finds a similar group
FuzzyAdd_NeverJoins(groups, candidate) == Append(groups, <<candidate>>)

\* one iteration of the loop of fuzzyMerge: the candidate joins the first
\* similar group or opens a new one
FuzzyAdd(groups, candidate) ==
    IF groups = <<>> THEN <<<<candidate>>>>
    ELSE LET g == FirstSimilarGroup(groups, candidate)
         IN IF g = 0
            THEN Append(groups, <<candidate>>)
            ELSE [groups EXCEPT ![g] = Append(@, candidate)]

\* the loop of fuzzyMerge over candidates[lo..hi], entered with groups: the
\* iterations lo..mid, and on their outcome the iterations mid+1..hi
RECURSIVE FuzzyGroups(_, _, _, _)
FuzzyGroups(groups, candidates, lo, hi) ==
    IF lo > hi THEN groups
    ELSE IF lo = hi THEN FuzzyAdd(groups, candidates[lo])
    ELSE LET mid == (lo + hi) \div 2
             left == FuzzyGroups(groups, candidates, lo, mid)
         IN IF left = groups
            THEN FuzzyGroups(groups, candidates, mid + 1, hi)
            ELSE FuzzyGroups(left, candidates, mid + 1, hi)

\* fuzzyMerge(candidates)
fuzzyMerge(candidates) ==
    LET groups == FuzzyGroups(<<>>, candidates, 1, Len(candidates))
    IN [g \in 1..Len(groups) |-> mergeGroup(groups[g])]

\* one merge of the inner loop of geminiResolve: dup (0-based idx) into the
\* canonical entry (0-based ci); the entries are the shared candidate objects
ApplyMerge(st, ci, idx) ==
    IF idx \notin 0..(Len(st.arr) - 1) \/ idx = ci
    THEN st
    ELSE [st EXCEPT
            !.arr[ci + 1].mentionCount = @ + st.arr[idx + 1].mentionCount,
            !.arr[ci + 1].sources = Dedup(@ \o st.arr[idx + 1].sources),
            !.merged = @ \cup {idx}]

RECURSIVE ApplyMergeIndices(_, _, _, _)
ApplyMergeIndices(st, ci, mergeIndices, n) ==
    IF n = 0 THEN st
    ELSE ApplyMerge(ApplyMergeIndices(st, ci, mergeIndices, n - 1), ci, mergeIndices[n])

\* one iteration of "for (const group of result.groups ?? [])"; iterating an
\* undefined mergeIndices throws
ApplyGroup(st, group) ==
    IF st.threw THEN st
    ELSE IF group.canonicalIndex \notin 0..(Len(st.arr) - 1) THEN st
    ELSE IF ~group.mergeIndicesDefined THEN [st EXCEPT !.threw = TRUE]
    ELSE ApplyMergeIndices(st, group.canonicalIndex, group.mergeIndices,
                           Len(group.mergeIndices))

RECURSIVE ApplyGroups(_, _, _)
ApplyGroups(st, groups, n) ==
    IF n = 0 THEN st
    ELSE ApplyGroup(ApplyGroups(st, groups, n - 1), groups[n])

\* candidates.slice(0, 80): the candidates listed in the prompt
topCandidates(candidates) == Slice(candidates, 0, TopSlice)

\* geminiResolve(candidates) when generateJSON settles with response
geminiResolve(candidates, response) ==
    LET top == topCandidates(candidates)
        rest == Slice(candidates, TopSlice, Len(candidates))
        groups == IF response.groupsDefined THEN response.groups ELSE <<>>
        st == ApplyGroups([arr |-> top, merged |-> {}, threw |-> FALSE],
                          groups, Len(groups))
        deduped == SelectSeq([i \in 1..Len(st.arr) |-> [idx |-> i - 1, c |-> st.arr[i]]],
                             LAMBDA e : e.idx \notin st.merged)
    IN IF response.kind = "reject" THEN candidates
       ELSE IF st.threw THEN st.arr \o rest
       ELSE SortByMentionsDesc([i \in 1..Len(deduped) |-> deduped[i].c] \o rest)

\* resolveEntities(candidates); response is used only when phase 2 runs
resolveEntities(candidates, response) ==
    IF Len(candidates) <= 1 THEN candidates
    ELSE LET fuzzyMerged == fuzzyMerge(candidates)
         IN IF Len(fuzzyMerged) > GeminiThreshold
            THEN geminiResolve(fuzzyMerged, response)
            ELSE fuzzyMerged

----------------------------------------------------------------------------
(* Ranker / scorer.  Scores are JavaScript numbers; the model computes     *)
(* them exactly as fractions [n, d] and rounds with Math.round.            *)

\* Math.round(n / d) for n >= 0, d > 0
Round(n, d) == (2 * n + d) \div (2 * d)

\* term.split(/\s+/)
splitWs(s) == split(CollapseSpaces(s))

\* computeQueryFit(evidence, intent) as a fraction
computeQueryFit(evidence, intent) ==
    LET allTags == Flatten([i \in 1..Len(evidence) |->
                              evidence[i].themes \o evidence[i].claimTags])
        allTagsLower == [i \in 1..Len(allTags) |-> toLowerCase(allTags[i])]
        terms == intent.constraints \o intent.mustHaves \o intent.niceToHaves
        targetTerms == [i \in 1..Len(terms) |-> toLowerCase(terms[i])]
        matches == {i \in 1..Len(targetTerms) :
                      \E token \in Range(splitWs(targetTerms[i])) :
                          \E t \in 1..Len(allTagsLower) : includes(allTagsLower[t], token)}
        matchCount == Cardinality(matches)
    IN IF evidence = <<>> THEN [n |-> 20, d |-> 1]
       ELSE IF targetTerms = <<>> THEN [n |-> 50, d |-> 1]
       ELSE [n |-> Min(100 * Len(targetTerms), 20 * Len(targetTerms) + 80 * matchCount),
             d |-> Len(targetTerms)]

\* computeRedditEndorsement(candidate, evidence) as a fraction
computeRedditEndorsement(candidate, evidence) ==
    LET redditEvidence == SelectSeq(evidence, LAMBDA e : e.platform = "reddit")
        positiveCount == Len(SelectSeq(redditEvidence, LAMBDA e : e.sentiment = "positive"))
        totalCount == Len(redditEvidence)
        volumeScore == Min(50, totalCount * 5)
    IN IF totalCount = 0 THEN [n |-> 10, d |-> 1]
       ELSE [n |-> Min(100 * totalCount, volumeScore * totalCount + positiveCount * 50),
             d |-> totalCount]

\* computeSocialCoverage(candidate, evidence)
computeSocialCoverage(candidate, evidence) ==
    LET platforms == {evidence[i].platform : i \in 1..Len(evidence)}
    IN Min(100, Cardinality(platforms) * 20 + Min(40, Len(evidence) * 3)
                + Min(20, candidate.mentionCount * 2))

\* computeRiskScore without the clamp at 0
computeRiskScore_NoClamp(evidence) ==
    LET negativeCount == Len(SelectSeq(evidence, LAMBDA e : e.sentiment = "negative"))
    IN IF evidence = <<>> THEN 50
       ELSE 100 - Round(negativeCount * 150, Len(evidence))

\* computeRiskScore(evidence)
computeRiskScore(evidence) ==
    LET negativeCount == Len(SelectSeq(evidence, LAMBDA e : e.sentiment = "negative"))
    IN IF evidence = <<>> THEN 50
       ELSE Round(Max(0, 100 * Len(evidence) - negativeCount * 150), Len(evidence))

\* computeConfidenceScore(candidate, evidence)
computeConfidenceScore(candidate, evidence) ==
    LET uniqueSources == {evidence[i].sourceUrl : i \in 1..Len(evidence)}
    IN Min(100, Min(50, Len(evidence) * 5) + Min(30, Cardinality(uniqueSources) * 5)
                + Min(20, candidate.mentionCount * 2))

\* computeScores(candidate, evidence, intent)
computeScores(candidate, evidence, intent) ==
    LET queryFit == computeQueryFit(evidence, intent)
        redditEndorsement == computeRedditEndorsement(candidate, evidence)
        socialProofCoverage == computeSocialCoverage(candidate, evidence)
        riskScore == computeRiskScore(evidence)
        confidenceScore == computeConfidenceScore(candidate, evidence)
        \* overall * 100 * queryFit.d * redditEndorsement.d
        overallN == 30 * queryFit.n * redditEndorsement.d
                    + 25 * redditEndorsement.n * queryFit.d
                    + 15 * (socialProofCoverage + riskScore + confidenceScore)
                         * queryFit.d * redditEndorsement.d
    IN [queryFit |-> Round(queryFit.n, queryFit.d),
        redditEndorsement |-> Round(redditEndorsement.n, redditEndorsement.d),
        socialProofCoverage |-> socialProofCoverage,
        riskScore |-> riskScore,
        confidenceScore |-> confidenceScore,
        overall |-> Round(overallN, 100 * queryFit.d * redditEndorsement.d)]

\* `${candidate.brand}|${candidate.model}`
EvidenceKey(candidate) == candidate.brand \o <<"|">> \o candidate.model

\* evidenceMap.get(key) ?? []
EvidenceFor(evidenceMap, candidate) ==
    IF EvidenceKey(candidate) \in DOMAIN evidenceMap
    THEN evidenceMap[EvidenceKey(candidate)] ELSE <<>>

\* a sort that puts an entry in front of the entries with an equal score
RECURSIVE InsertByOverall_TiesFirst(_, _)
InsertByOverall_TiesFirst(sorted, x) ==
    IF sorted = <<>> THEN <<x>>
    ELSE IF Head(sorted).scores.overall <= x.scores.overall
         THEN <<x>> \o sorted
         ELSE <<Head(sorted)>> \o InsertByOverall_TiesFirst(Tail(sorted), x)

\* scored.sort((a, b) => b.scores.overall - a.scores.overall): stable
RECURSIVE InsertByOverall(_, _)
InsertByOverall(sorted, x) ==
    IF sorted = <<>> THEN <<x>>
    ELSE IF Head(sorted).scores.overall < x.scores.overall
         THEN <<x>> \o sorted
         ELSE <<Head(sorted)>> \o InsertByOverall(Tail(sorted), x)

RECURSIVE SortByOverallDesc(_)
SortByOverallDesc(s) ==
    IF s = <<>> THEN <<>>
    ELSE InsertByOverall(SortByOverallDesc(SubSeq(s, 1, Len(s) - 1)), s[Len(s)])

\* rankCandidates without the slice to the top 10
ScoreSortSlice_NoSlice(candidates, evidenceMap, intent) ==
    LET scored == [i \in 1..Len(candidates) |->
                     [candidate |-> candidates[i],
                      origin |-> i - 1,
                      scores |-> computeScores(candidates[i],
                                               EvidenceFor(evidenceMap, candidates[i]),
                                               intent),
                      evidence |-> EvidenceFor(evidenceMap, candidates[i])]]
    IN SortByOverallDesc(scored)

\* rankCandidates steps 1-3: score, sort, keep the top 10.  origin is the
\* 0-based position of the candidate in the input list (history only: the
\* code's entries hold the candidate object itself)
ScoreSortSlice(candidates, evidenceMap, intent) ==
    LET scored == [i \in 1..Len(candidates) |->
                     [candidate |-> candidates[i],
                      origin |-> i - 1,
                      scores |-> computeScores(candidates[i],
                                               EvidenceFor(evidenceMap, candidates[i]),
                                               intent),
                      evidence |-> EvidenceFor(evidenceMap, candidates[i])]]
    IN Slice(SortByOverallDesc(scored), 0, TopN)

\* generateRationales(top10, intent) when the LLM service returned the
\* first numRationales rationales (0 when it failed or returned none)
generateRationales(top10, numRationales) ==
    [i \in 1..Len(top10) |->
        [productId |-> "",
         rank |-> i,
         scores |-> top10[i].scores,
         rationale |-> IF i <= numRationales
                       THEN [text |-> "llm", n |-> i]
                       ELSE [text |-> "Ranked # based on social proof analysis.", n |-> i],
         citations |-> [e \in 1..Len(Slice(top10[i].evidence, 0, 5)) |->
                          [sourceId |-> "", url |-> top10[i].evidence[e].sourceUrl,
                           platform |-> top10[i].evidence[e].platform,
                           snippet |-> top10[i].evidence[e].quote]],
         origin |-> top10[i].origin]]

\* rankCandidates(candidates, evidenceMap, intent)
rankCandidates(candidates, evidenceMap, intent, numRationales) ==
    [rankedProducts |-> generateRationales(ScoreSortSlice(candidates, evidenceMap, intent),
                                           numRationales),
     candidateCount |-> Len(candidates)]

----------------------------------------------------------------------------
(* Inputs of resolveEntities                                               *)

NamePool == <<
    [brand |-> <<"S","o","n","y">>, model |-> <<"X","M","-","5">>,
     variant |-> "", category |-> "earbuds"],
    [brand |-> <<"s","o","n","y">>, model |-> <<"x","m","5">>,
     variant |-> "black", category |-> "headphones"],
    [brand |-> <<"S","o","n","y">>, model |-> <<"X","M","5"," ","P","r","o">>,
     variant |-> "", category |-> "earbuds"],
    [brand |-> <<"X","M","5">>, model |-> <<"S","o","n","y">>,
     variant |-> "", category |-> "earbuds"],
    [brand |-> <<"B","o","s","e">>, model |-> <<"Q","C">>,
     variant |-> "", category |-> "earbuds"] >>

DigitSeq == <<"0","1","2","3","4","5","6","7","8","9">>

\* sources are source indices; a candidate mentioned more than once also
\* cites the shared source 0
SourcesAt(pos, mentionCount) == IF mentionCount >= 2 THEN <<0, pos>> ELSE <<pos>>

Cand(name, mentionCount, pos) ==
    [brand |-> name.brand, model |-> name.model, variant |-> name.variant,
     category |-> name.category, mentionCount |-> mentionCount,
     sources |-> SourcesAt(pos, mentionCount)]

\* pairwise dissimilar candidates "z 01", "z 02", ... with one mention each
Filler(j, pos) ==
    [brand |-> <<"z">>, model |-> <<DigitSeq[(j \div 10) + 1], DigitSeq[(j % 10) + 1]>>,
     variant |-> "", category |-> "earbuds", mentionCount |-> 1,
     sources |-> <<pos>>]

NumFillers == GeminiThreshold + 1

IsSortedDesc(s) ==
    \A i \in 1..(Len(s) - 1) : s[i].mentionCount >= s[i + 1].mentionCount

\* candidate lists as aggregateProducts hands them over: sorted by mentionCount
PrefixLists(n) ==
    {[i \in 1..Len(p) |-> Cand(NamePool[p[i][1]], p[i][2], i)] :
        p \in {q \in SeqsUpTo((1..Len(NamePool)) \X (1..MaxMentions), n) :
                 \A i \in 1..(Len(q) - 1) : q[i][2] >= q[i + 1][2]}}

WithFillers(prefix) ==
    prefix \o [j \in 1..NumFillers |-> Filler(j, Len(prefix) + j)]

\* lists in another order than by mentionCount, as the unit tests pass them
UnsortedLists ==
    {<<Cand(NamePool[a], m, 1), Cand(NamePool[b], n, 2)>> :
        a \in 1..Len(NamePool), b \in 1..Len(NamePool),
        m \in 1..MaxMentions, n \in 1..MaxMentions}

\* more candidates than geminiResolve lists in its prompt: TopSlice
\* dissimilar candidates, then two more with one mention each
LongLists ==
    {[j \in 1..TopSlice |-> Filler(j, j)]
        \o <<Cand(NamePool[a], 1, TopSlice + 1), Cand(NamePool[b], 1, TopSlice + 2)>> :
        a \in {1}, b \in {2, 5}}

ResolveInputs ==
    PrefixLists(MaxResolveLen) \cup {WithFillers(p) : p \in PrefixLists(MaxPrefix)}
    \cup UnsortedLists \cup LongLists

\* merge groups an LLM response may carry: repeated indices, mutual and
\* chained merges, self merges, out-of-range indices, missing mergeIndices
Group(ci, mi) == [canonicalIndex |-> ci, mergeIndices |-> mi, mergeIndicesDefined |-> TRUE]

GroupPool == {
    Group(0, <<1>>), Group(1, <<0>>), Group(0, <<1, 1>>), Group(2, <<1>>),
    Group(0, <<0, 2>>), Group(99, <<0>>), Group(0, <<99>>),
    [canonicalIndex |-> 1, mergeIndices |-> <<>>, mergeIndicesDefined |-> FALSE] }

NoResponse == [kind |-> "none", groupsDefined |-> FALSE, groups |-> <<>>]

Responses ==
    {[kind |-> "ok", groupsDefined |-> TRUE, groups |-> g] : g \in SeqsUpTo(GroupPool, MaxGroups)}
    \cup {[kind |-> "ok", groupsDefined |-> FALSE, groups |-> <<>>],
          [kind |-> "reject", groupsDefined |-> FALSE, groups |-> <<>>]}

----------------------------------------------------------------------------
(* resolveEntities as a state machine                                      *)

NoIntent == [useCase |-> "", constraints |-> <<>>, mustHaves |-> <<>>, niceToHaves |-> <<>>]

NoRanking == [rankedProducts |-> <<>>, candidateCount |-> -1]

OrchIdle ==
    /\ status = "PENDING" /\ parsedIntent = NoIntent /\ rankingResults = {}
    /\ searchLog = {} /\ runs = <<>>

RankIdle ==
    /\ kpc = "idle" /\ kCandidates = <<>> /\ kEvidence = <<>>
    /\ kIntent = NoIntent /\ kTop10 = <<>> /\ kResult = NoRanking

ResolveIdle ==
    /\ rpc = "idle" /\ rInput = <<>> /\ rFuzzy = <<>> /\ rOutput = <<>>
    /\ rResponse = NoResponse /\ rSent = <<>>

PipelineIdle == OrchIdle /\ ResolveIdle /\ RankIdle

\* no call of checkRateLimit was made
NoCheck == [platform |-> "", at |-> -1, result |-> FALSE, before |-> <<>>,
            logBefore |-> <<>>, logAfter |-> <<>>]

LimitIdle ==
    /\ now = 0 /\ requestLog = <<>> /\ maxRequests = 0 /\ windowMs = 0
    /\ permitted = <<>> /\ lastCheck = NoCheck

\* withRetry was not called
RetryIdle ==
    [impl |-> "", maxRetries |-> 0, maxRetriesGiven |-> FALSE, onRetry |-> FALSE,
     baseDelayMs |-> 0, maxDelayMs |-> 0, slept |-> <<>>,
     failures |-> 0, pc |-> "idle", attempt |-> 0, calls |-> 0, observed |-> <<>>,
     outcome |-> [kind |-> "pending", value |-> "", error |-> 0]]

\* parseIntent was not called
IntentIdle == [pc |-> "idle", rawQuery |-> <<>>, response |-> [kind |-> "none"],
               result |-> [kind |-> "none"]]

GenIdle ==
    [pc |-> "idle", adapters |-> <<>>, webMentions |-> <<>>, allMentions |-> <<>>,
     i |-> 0, allProducts |-> <<>>, chunks |-> <<>>, result |-> [kind |-> "none"]]
AggIdle == [pc |-> "idle", rawRefs |-> <<>>, result |-> <<>>]
GenVarsIdle == gen = GenIdle /\ agg = AggIdle
Sources == {"amazon", "sephora", "ewg"}
NoRecord == [present |-> FALSE]
NoCall == [op |-> "none"]
NoRetrieval == [pc |-> "idle", attempt |-> [kind |-> "none"]]
BreakerIdle ==
    /\ failures = [s \in Sources |-> NoRecord]
    /\ clock = 0
    /\ failureLog = [s \in Sources |-> <<>>]
    /\ lastCall = NoCall
    /\ used = [calls |-> 0, advances |-> 0]
    /\ retrieval = NoRetrieval
Callers == 1..NumCallers
Domains == {"amazon.com", "default"}
NoBucket == [present |-> FALSE]
BucketIdle ==
    /\ buckets = [d \in Domains |-> NoBucket]
    /\ bucketClock = [now |-> 0, advances |-> 0, calls |-> 0,
                      admitted |-> [d \in Domains |-> <<>>]]
    /\ waiters = [c \in Callers |-> [pc |-> "idle"]]
EvIdle == [pc |-> "idle"]
LibIdle ==
    /\ LimitIdle /\ retry = RetryIdle /\ intentCall = IntentIdle
    /\ GenVarsIdle /\ BreakerIdle /\ BucketIdle /\ evCall = EvIdle

InitResolve ==
    /\ OrchIdle /\ RankIdle /\ LibIdle
    /\ rpc = "start"
    /\ rInput \in ResolveInputs
    /\ rFuzzy = <<>> /\ rOutput = <<>> /\ rResponse = NoResponse /\ rSent = <<>>

\* resolveEntities line 11: zero or one candidate is returned as is
ReturnInput ==
    /\ rpc = "start" /\ Len(rInput) <= 1
    /\ rOutput' = resolveEntities(rInput, NoResponse)
    /\ rpc' = "done"
    /\ UNCHANGED <<rInput, rFuzzy, rResponse, rSent, orchVars, rankVars, libVars>>

\* phase 1
FuzzyMergeStep ==
    /\ rpc = "start" /\ Len(rInput) > 1
    /\ rFuzzy' = fuzzyMerge(rInput)
    /\ rpc' = "fuzzy"
    /\ UNCHANGED <<rInput, rOutput, rResponse, rSent, orchVars, rankVars, libVars>>

\* at most 20 candidates after phase 1: phase 1's list is the result
ReturnFuzzy ==
    /\ rpc = "fuzzy" /\ ~(Len(rFuzzy) > GeminiThreshold)
    /\ rOutput' = rFuzzy
    /\ rpc' = "done"
    /\ UNCHANGED <<rInput, rFuzzy, rResponse, rSent, orchVars, rankVars, libVars>>

\* phase 2: the LLM service settles with some response
GeminiResolveStep ==
    /\ rpc = "fuzzy" /\ Len(rFuzzy) > GeminiThreshold
    /\ \E response \in Responses :
          /\ rResponse' = response
          /\ rSent' = topCandidates(rFuzzy)
          /\ rOutput' = geminiResolve(rFuzzy, response)
    /\ rpc' = "done"
    /\ UNCHANGED <<rInput, rFuzzy, orchVars, rankVars, libVars>>

NextResolve == ReturnInput \/ FuzzyMergeStep \/ ReturnFuzzy \/ GeminiResolveStep

SpecResolve == InitResolve /\ [][NextResolve]_vars

TotalMentions(s) == SumSeq([i \in 1..Len(s) |-> s[i].mentionCount])

----------------------------------------------------------------------------
(* Claims about resolveEntities                                            *)

\* C6: resolveEntities returns no more candidates than it was given and the
\* sum of mentionCount over the output equals the sum over the input, for
\* every response of the LLM service in phase 2.
C6_CountAndMentionsPreserved ==
    rpc = "done" =>
        /\ Len(rOutput) <= Len(rInput)
        /\ TotalMentions(rOutput) = TotalMentions(rInput)

\* C7: the list returned by resolveEntities is sorted by mentionCount in
\* descending order, whether or not phase 2 runs.
C7_OutputSortedDesc == rpc = "done" => IsSortedDesc(rOutput)

CountIn(s, x) == Cardinality({i \in 1..Len(s) : s[i] = x})

SameNorm(a, b) == normalize(a.brand, a.model) = normalize(b.brand, b.model)

\* C8: for an input of two or more candidates, all candidates with equal
\* normalized brand+model end up in one single output candidate whose
\* mentionCount is at least the sum of theirs and whose sources contain each
\* of their sources exactly once.
C8_EqualNamesCollapse ==
    (rpc = "done" /\ Len(rInput) >= 2) =>
        \A i \in 1..Len(rInput) :
            LET same == {j \in 1..Len(rInput) : SameNorm(rInput[i], rInput[j])}
                need == UNION {Range(rInput[j].sources) : j \in same}
                sum == SumSeq([j \in 1..Len(rInput) |->
                                 IF j \in same THEN rInput[j].mentionCount ELSE 0])
                holders == {k \in 1..Len(rOutput) :
                               \E x \in need : x \in Range(rOutput[k].sources)}
            IN Cardinality(same) >= 2 =>
                  \E k \in 1..Len(rOutput) :
                      /\ \A j \in same : j \in Range(rOutput[k].sources)
                      /\ \A x \in need : CountIn(rOutput[k].sources, x) = 1
                      /\ rOutput[k].mentionCount >= sum

----------------------------------------------------------------------------
(* rankCandidates as a state machine                                       *)

Intents == {
    NoIntent,
    [useCase |-> "sleeping",
     constraints |-> << <<"s","o","f","t">> >>,
     mustHaves |-> << <<"L","o","w"," ","c","o","s","t">> >>,
     niceToHaves |-> << <<"s","l","i","m">> >>] }

\* evidence lists a candidate may have in the evidence map
EvidencePool == <<
    << [sentiment |-> "positive", platform |-> "reddit", sourceUrl |-> "u1",
        themes |-> << <<"s","o","f","t">> >>, claimTags |-> << <<"l","o","w","_","c","o","s","t">> >>,
        quote |-> "q1"] >>,
    << [sentiment |-> "negative", platform |-> "web", sourceUrl |-> "u2",
        themes |-> << <<"h","a","r","d">> >>, claimTags |-> <<>>, quote |-> "q2"],
       [sentiment |-> "neutral", platform |-> "reddit", sourceUrl |-> "u2",
        themes |-> <<>>, claimTags |-> << <<"S","l","i","m">> >>, quote |-> "q3"] >> >>

\* resolved candidates: pairwise distinct names, mention counts 3, 3, 2, 2, 1, ...
RankCandidate(j) ==
    [Filler(j, j) EXCEPT !.mentionCount = Max(1, 3 - ((j - 1) \div 2))]

RankCandidates(n) == [j \in 1..n |-> RankCandidate(j)]

\* the evidence the map holds for candidate j when it has an entry
EvidenceChoice(j) == EvidencePool[((j - 1) % Len(EvidencePool)) + 1]

\* has[j] tells whether the evidence map has an entry for candidate j
EvidenceMapOf(n, has) ==
    [key \in {EvidenceKey(RankCandidate(j)) : j \in {i \in 1..n : has[i]}} |->
        EvidenceChoice(CHOOSE j \in 1..n : EvidenceKey(RankCandidate(j)) = key)]

InitRank ==
    /\ OrchIdle /\ ResolveIdle /\ LibIdle
    /\ kpc = "start"
    /\ \E n \in 0..MaxRankLen :
          /\ kCandidates = RankCandidates(n)
          /\ \E has \in [1..n -> BOOLEAN] :
                kEvidence = EvidenceMapOf(n, has)
    /\ kIntent \in Intents
    /\ kTop10 = <<>> /\ kResult = NoRanking

\* rankCandidates steps 1-3
ScoreStep ==
    /\ kpc = "start"
    /\ kTop10' = ScoreSortSlice(kCandidates, kEvidence, kIntent)
    /\ kpc' = "rationales"
    /\ UNCHANGED <<kCandidates, kEvidence, kIntent, kResult, orchVars, resolveVars, libVars>>

\* generateRationales: the LLM service returns rationales (all, or too few)
RationalesOk ==
    /\ kpc = "rationales"
    /\ \E numRationales \in {Len(kTop10), Len(kTop10) \div 2} :
          kResult' = [rankedProducts |-> generateRationales(kTop10, numRationales),
                      candidateCount |-> Len(kCandidates)]
    /\ kpc' = "done"
    /\ UNCHANGED <<kCandidates, kEvidence, kIntent, kTop10, orchVars, resolveVars, libVars>>

\* generateRationales: the LLM call fails and every rationale is the default
RationalesFail ==
    /\ kpc = "rationales"
    /\ kResult' = [rankedProducts |-> generateRationales(kTop10, 0),
                   candidateCount |-> Len(kCandidates)]
    /\ kpc' = "done"
    /\ UNCHANGED <<kCandidates, kEvidence, kIntent, kTop10, orchVars, resolveVars, libVars>>

NextRank == ScoreStep \/ RationalesOk \/ RationalesFail

SpecRank == InitRank /\ [][NextRank]_vars

----------------------------------------------------------------------------
(* Claims about rankCandidates                                             *)

Ranked == kResult.rankedProducts

\* C9: rankCandidates returns exactly min(10, number of candidates) ranked
\* products, their ranks are 1, 2, ..., N in list order, and candidateCount
\* is the number of candidates before truncation.
C9_TopTenDenseRanks ==
    kpc = "done" =>
        /\ Len(Ranked) = Min(10, Len(kCandidates))
        /\ \A i \in 1..Len(Ranked) : Ranked[i].rank = i
        /\ kResult.candidateCount = Len(kCandidates)

\* a run in which the truncation to ten happened
C9_Witness ==
    /\ kpc = "done" /\ Len(kCandidates) > 10 /\ Len(Ranked) = 10
    /\ Ranked[10].rank = 10

OverallOf(j) == computeScores(kCandidates[j], EvidenceFor(kEvidence, kCandidates[j]),
                              kIntent).overall

\* C10: overall is non-increasing as rank increases, every kept product has
\* an overall score at least that of every product cut off, and candidates
\* with equal overall keep their relative input order.
C10_OrderedByOverall ==
    kpc = "done" =>
        LET kept == {Ranked[i].origin + 1 : i \in 1..Len(Ranked)}
            cut == (1..Len(kCandidates)) \ kept
            overall == [j \in 1..Len(kCandidates) |-> OverallOf(j)]
        IN /\ \A i \in 1..Len(Ranked) : Ranked[i].scores.overall = overall[Ranked[i].origin + 1]
           /\ \A i \in 1..(Len(Ranked) - 1) :
                 Ranked[i].scores.overall >= Ranked[i + 1].scores.overall
           /\ \A j \in kept : \A c \in cut : overall[j] >= overall[c]
           /\ \A i \in 1..Len(Ranked) : \A k \in 1..Len(Ranked) :
                 (i < k /\ Ranked[i].scores.overall = Ranked[k].scores.overall)
                    => Ranked[i].origin < Ranked[k].origin
           /\ \A j \in kept : \A c \in cut : overall[j] = overall[c] => j < c

\* a run with a tie among the kept products, a strict drop between two
\* ranks, an order that differs from the input order, and a cut-off product
C10_Witness ==
    /\ kpc = "done" /\ Len(kCandidates) > 10
    /\ \E i \in 1..(Len(Ranked) - 1) : Ranked[i].scores.overall = Ranked[i + 1].scores.overall
    /\ \E i \in 1..(Len(Ranked) - 1) : Ranked[i].scores.overall > Ranked[i + 1].scores.overall
    /\ \E i \in 1..(Len(Ranked) - 1) : Ranked[i].origin > Ranked[i + 1].origin

----------------------------------------------------------------------------
(* Orchestrator: runPipeline and persistResults                            *)

Runs == 1..NumRuns

\* the Query row that exists, and an id for which there is no row
QueryIds == {"query-1", "nonexistent"}
ExistingQuery == "query-1"

NoError == [isError |-> FALSE, message |-> "", thrown |-> FALSE]

\* new Error(message)
Error(message) == [isError |-> TRUE, message |-> message, thrown |-> TRUE]

\* a rejection with a value that is not an Error object
NonError == [isError |-> FALSE, message |-> "", thrown |-> TRUE]

NoResult == [queryId |-> "", success |-> FALSE, candidateCount |-> -1,
             top10Count |-> -1, durationMs |-> -1,
             error |-> [defined |-> FALSE, message |-> ""]]

\* generated (history): how many candidates generateCandidates returned, -1
\* before it returned
RunIdle == [pc |-> "idle", queryId |-> "", steps |-> <<>>, thrown |-> NoError,
            thrownAt |-> 0, generated |-> -1,
            intent |-> NoIntent, candidates |-> <<>>, resolved |-> <<>>,
            evidenceMap |-> <<>>, ranking |-> NoRanking, result |-> NoResult]

\* what the intent parser hands back for the stored raw query
ParsedIntentOf == CHOOSE i \in Intents : i # NoIntent

\* candidate lists generateCandidates may return (sorted by mentionCount)
GeneratedLists == {
    <<>>,
    <<Cand(NamePool[5], 2, 1), Cand(NamePool[1], 1, 2), Cand(NamePool[2], 1, 3)>> }

\* an evidence map extractEvidence may return: one entry per candidate key;
\* shift tells which evidence the LLM found for which candidate
EvidenceMapFor(candidates, shift) ==
    [key \in {EvidenceKey(candidates[j]) : j \in 1..Len(candidates)} |->
        EvidenceChoice(shift + (CHOOSE j \in 1..Len(candidates) : EvidenceKey(candidates[j]) = key))]

\* .toLowerCase().replace(/[^a-z0-9]+/g, "-").replace(/^-|-$/g, "")
RECURSIVE Dashes(_)
Dashes(s) ==
    IF s = <<>> THEN <<>>
    ELSE IF Head(s) \in Range(LowerChars) \cup DigitChars
         THEN <<Head(s)>> \o Dashes(Tail(s))
         ELSE IF Len(s) > 1 /\ s[2] \notin Range(LowerChars) \cup DigitChars
              THEN Dashes(Tail(s))
              ELSE <<"-">> \o Dashes(Tail(s))

Slug(candidate) ==
    LET d == Dashes(toLowerCase(candidate.brand \o <<"-">> \o candidate.model))
        l == IF d # <<>> /\ Head(d) = "-" THEN Tail(d) ELSE d
    IN IF l # <<>> /\ l[Len(l)] = "-" THEN SubSeq(l, 1, Len(l) - 1) ELSE l

\* persistResults step 1: the product upserted for each ranked entry is the
\* candidate at position rank - 1 (or the first one); its id stands for the
\* row with that canonicalSlug
AssignProductIds(candidates, rankedProducts) ==
    [i \in 1..Len(rankedProducts) |->
        LET matchedCandidate == IF rankedProducts[i].rank <= Len(candidates)
                                THEN candidates[rankedProducts[i].rank]
                                ELSE candidates[1]
        IN IF candidates = <<>> THEN rankedProducts[i]
           ELSE [rankedProducts[i] EXCEPT !.productId = Slug(matchedCandidate)]]

\* logSearch without its try/catch: a failing store rejects the call
logSearch_Rethrows(storeOk) == IF storeOk THEN "resolved" ELSE "rejected"

\* logSearch(params): every failure of the store is caught inside
logSearch(storeOk) == "resolved"

\* prisma.query.update({status: "FAILED"}).catch(() => {})
SwallowedUpdate(storeOk) == "resolved"

\* the value returned on success
SuccessResult(queryId, candidateCount, top10Count, durationMs) ==
    [queryId |-> queryId, success |-> TRUE, candidateCount |-> candidateCount,
     top10Count |-> top10Count, durationMs |-> durationMs,
     error |-> [defined |-> FALSE, message |-> ""]]

\* the value returned by the catch block
FailureResult(queryId, error, durationMs) ==
    [queryId |-> queryId, success |-> FALSE, candidateCount |-> 0,
     top10Count |-> 0, durationMs |-> durationMs,
     error |-> [defined |-> TRUE,
                message |-> IF error.isError THEN error.message ELSE "Unknown error"]]

\* the try block with the COMPLETED write placed before persistResults
MainPath_CompletedBeforePersist ==
    <<"idle", "fetch", "setProcessing", "parseIntent", "storeIntent",
      "generateCandidates", "resolveEntities", "extractEvidence",
      "analyzeIngredients", "rankCandidates", "setCompleted", "persistProducts",
      "persistSources", "persistEvidence", "persistRanking",
      "logCompleted", "done">>

\* the awaited statements of the try block when there are candidates
MainPath == <<"idle", "fetch", "setProcessing", "parseIntent", "storeIntent",
              "generateCandidates", "resolveEntities", "extractEvidence",
              "analyzeIngredients", "rankCandidates", "persistProducts",
              "persistSources", "persistEvidence", "persistRanking",
              "setCompleted", "logCompleted", "done">>

\* ... and when generateCandidates returned no candidate
EmptyPath == <<"idle", "fetch", "setProcessing", "parseIntent", "storeIntent",
               "generateCandidates", "completeEmpty", "logEmpty", "done">>

\* the statements of the catch block
CatchPath == <<"catchSetFailed", "catchLog", "done">>

\* runPipeline without the early return for zero candidates
TryPath_NoEmptyCheck(candidates) == MainPath

\* if (candidates.length === 0) { ... return } selects the path
TryPath(candidates) == IF Len(candidates) = 0 THEN EmptyPath ELSE MainPath

\* the statement that follows a statement which completed normally
NextPc(pc, candidates) ==
    LET path == IF pc \in Range(CatchPath) THEN CatchPath ELSE TryPath(candidates)
        at == CHOOSE i \in 1..Len(path) : path[i] = pc
    IN IF at < Len(path) THEN path[at + 1] ELSE "done"

\* a step completed: record it and move on
Advance(run, step) ==
    [run EXCEPT !.pc = NextPc(run.pc, run.candidates), !.steps = Append(@, step)]

\* a throw that does not leave the try block: the next statement runs
Throw_Continues(run, step, error) ==
    [run EXCEPT !.pc = NextPc(run.pc, run.candidates), !.steps = Append(@, step),
                !.thrown = error, !.thrownAt = Len(run.steps) + 1]

\* a step threw inside the try block: control enters the catch block, where
\* the block-scoped locals of the try block are gone.  thrownAt is history:
\* the position in steps of the step that threw
Throw(run, step, error) ==
    [run EXCEPT !.pc = "catchSetFailed", !.steps = Append(@, step), !.thrown = error,
                !.thrownAt = Len(run.steps) + 1,
                !.intent = NoIntent, !.candidates = <<>>, !.resolved = <<>>,
                !.evidenceMap = <<>>, !.ranking = NoRanking]

\* a call of a collaborator that touches no modelled store state: it either
\* returns or throws
CallOrThrow(r, pc, step, next, errors) ==
    /\ runs[r].pc = pc
    /\ \/ runs' = [runs EXCEPT ![r] = next]
       \/ \E e \in errors : runs' = [runs EXCEPT ![r] = Throw(runs[r], step, e)]

\* runPipeline(queryId) is invoked; invocations are numbered in starting order
Start(r) ==
    /\ runs[r].pc = "idle"
    /\ \A q \in Runs : q < r => runs[q].pc # "idle"
    /\ \E queryId \in QueryIds :
          runs' = [runs EXCEPT ![r] = [Advance(runs[r], "start") EXCEPT !.queryId = queryId]]
    /\ UNCHANGED <<status, parsedIntent, rankingResults, searchLog, resolveVars, rankVars, libVars>>

\* prisma.query.findUnique; a missing row throws "Query ... not found"
FetchQuery(r) ==
    /\ runs[r].pc = "fetch"
    /\ \/ /\ runs[r].queryId = ExistingQuery
          /\ runs' = [runs EXCEPT ![r] = Advance(runs[r], "findUnique")]
       \/ /\ runs[r].queryId # ExistingQuery
          /\ runs' = [runs EXCEPT ![r] = Throw(runs[r], "findUnique", Error("Query not found"))]
       \/ runs' = [runs EXCEPT ![r] = Throw(runs[r], "findUnique", Error("findUnique failed"))]
    /\ UNCHANGED <<status, parsedIntent, rankingResults, searchLog, resolveVars, rankVars, libVars>>

\* prisma.query.update({status: "PROCESSING"})
SetProcessing(r) ==
    /\ runs[r].pc = "setProcessing"
    /\ \/ /\ status' = "PROCESSING"
          /\ runs' = [runs EXCEPT ![r] = Advance(runs[r], "status:PROCESSING")]
       \/ /\ runs' = [runs EXCEPT ![r] =
                        Throw(runs[r], "status:PROCESSING", Error("update failed"))]
          /\ UNCHANGED status
    /\ UNCHANGED <<parsedIntent, rankingResults, searchLog, resolveVars, rankVars, libVars>>

\* step 1: parseIntent(query.rawQuery)
ParseIntent(r) ==
    /\ CallOrThrow(r, "parseIntent", "parseIntent",
                   [Advance(runs[r], "parseIntent") EXCEPT !.intent = ParsedIntentOf],
                   {Error("Gemini down"), NonError})
    /\ UNCHANGED <<status, parsedIntent, rankingResults, searchLog, resolveVars, rankVars, libVars>>

\* prisma.query.update({parsedIntent: intent})
StoreIntent(r) ==
    /\ runs[r].pc = "storeIntent"
    /\ \/ /\ parsedIntent' = runs[r].intent
          /\ runs' = [runs EXCEPT ![r] = Advance(runs[r], "storeIntent")]
       \/ /\ runs' = [runs EXCEPT ![r] = Throw(runs[r], "storeIntent", Error("update failed"))]
          /\ UNCHANGED parsedIntent
    /\ UNCHANGED <<status, rankingResults, searchLog, resolveVars, rankVars, libVars>>

\* step 2: generateCandidates(seedTerms, intent, inferredCategory)
GenerateCandidates(r) ==
    /\ runs[r].pc = "generateCandidates"
    /\ \/ \E candidates \in GeneratedLists :
             runs' = [runs EXCEPT ![r] =
                        Advance([runs[r] EXCEPT !.candidates = candidates,
                                                !.generated = Len(candidates)],
                                "generateCandidates")]
       \/ runs' = [runs EXCEPT ![r] =
                     Throw(runs[r], "generateCandidates", Error("generateCandidates failed"))]
    /\ UNCHANGED <<status, parsedIntent, rankingResults, searchLog, resolveVars, rankVars, libVars>>

\* zero candidates: prisma.query.update({status: "COMPLETED"})
CompleteEmpty(r) ==
    /\ runs[r].pc = "completeEmpty"
    /\ \/ /\ status' = "COMPLETED"
          /\ runs' = [runs EXCEPT ![r] = Advance(runs[r], "status:COMPLETED")]
       \/ /\ runs' = [runs EXCEPT ![r] =
                        Throw(runs[r], "status:COMPLETED", Error("update failed"))]
          /\ UNCHANGED status
    /\ UNCHANGED <<parsedIntent, rankingResults, searchLog, resolveVars, rankVars, libVars>>

\* the end of a try-block path: logSearch, then return the success value
LogAndReturn(r, pc, logStatus, candidateCount, top10Count) ==
    /\ runs[r].pc = pc
    /\ \E storeOk \in BOOLEAN :
          /\ searchLog' = searchLog \cup {[run |-> r, status |-> logStatus]}
          /\ runs' = [runs EXCEPT ![r] =
                IF logSearch(storeOk) = "resolved"
                THEN [Advance(runs[r], logStatus) EXCEPT
                        !.result = SuccessResult(runs[r].queryId, candidateCount, top10Count,
                                                 Len(runs[r].steps))]
                ELSE Throw(runs[r], logStatus, Error("searchLog.create failed"))]
    /\ UNCHANGED <<status, parsedIntent, rankingResults, resolveVars, rankVars, libVars>>

\* zero candidates: logSearch({status: "completed_empty"}) and return
LogEmpty(r) == LogAndReturn(r, "logEmpty", "logSearch:completed_empty", 0, 0)

\* step 3: resolveEntities(candidates)
ResolveEntitiesStep(r) ==
    /\ CallOrThrow(r, "resolveEntities", "resolveEntities",
                   [Advance(runs[r], "resolveEntities") EXCEPT
                       !.resolved = resolveEntities(runs[r].candidates, NoResponse)],
                   {Error("resolveEntities failed")})
    /\ UNCHANGED <<status, parsedIntent, rankingResults, searchLog, resolveVars, rankVars, libVars>>

\* step 4: extractEvidence(resolvedCandidates, mentions)
ExtractEvidence(r) ==
    /\ \E shift \in 0..(Len(EvidencePool) - 1) :
          CallOrThrow(r, "extractEvidence", "extractEvidence",
                      [Advance(runs[r], "extractEvidence") EXCEPT
                          !.evidenceMap = EvidenceMapFor(runs[r].resolved, shift)],
                      {Error("extractEvidence failed")})
    /\ UNCHANGED <<status, parsedIntent, rankingResults, searchLog, resolveVars, rankVars, libVars>>

\* step 4.5: analyzeProductIngredients(resolvedCandidates, ingredientTexts)
AnalyzeIngredients(r) ==
    /\ CallOrThrow(r, "analyzeIngredients", "analyzeIngredients",
                   Advance(runs[r], "analyzeIngredients"),
                   {Error("analyzeProductIngredients failed")})
    /\ UNCHANGED <<status, parsedIntent, rankingResults, searchLog, resolveVars, rankVars, libVars>>

\* step 5: rankCandidates(resolvedCandidates, evidenceMap, intent)
RankCandidatesStep(r) ==
    /\ runs[r].pc = "rankCandidates"
    /\ \/ runs' = [runs EXCEPT ![r] =
                     [Advance(runs[r], "rankCandidates") EXCEPT
                         !.ranking = rankCandidates(runs[r].resolved, runs[r].evidenceMap,
                                                    runs[r].intent, Len(runs[r].resolved))]]
       \/ runs' = [runs EXCEPT ![r] =
                     Throw(runs[r], "rankCandidates", Error("rankCandidates failed"))]
    /\ UNCHANGED <<status, parsedIntent, rankingResults, searchLog, resolveVars, rankVars, libVars>>

\* step 6, persistResults part 1: upsert a product per ranked entry and set
\* its productId; a failing upsert throws
PersistProducts(r) ==
    /\ CallOrThrow(r, "persistProducts", "persistProducts",
                   [Advance(runs[r], "persistProducts") EXCEPT
                       !.ranking.rankedProducts =
                           AssignProductIds(runs[r].resolved, runs[r].ranking.rankedProducts)],
                   {Error("upsert failed")})
    /\ UNCHANGED <<status, parsedIntent, rankingResults, searchLog, resolveVars, rankVars, libVars>>

\* persistResults part 2: create sources; failures are swallowed
PersistSources(r) ==
    /\ runs[r].pc = "persistSources"
    /\ runs' = [runs EXCEPT ![r] = Advance(runs[r], "persistSources")]
    /\ UNCHANGED <<status, parsedIntent, rankingResults, searchLog, resolveVars, rankVars, libVars>>

\* persistResults part 3: create evidence; failures are swallowed
PersistEvidence(r) ==
    /\ runs[r].pc = "persistEvidence"
    /\ runs' = [runs EXCEPT ![r] = Advance(runs[r], "persistEvidence")]
    /\ UNCHANGED <<status, parsedIntent, rankingResults, searchLog, resolveVars, rankVars, libVars>>

\* persistResults part 4: prisma.rankingResult.create
PersistRanking(r) ==
    /\ runs[r].pc = "persistRanking"
    /\ \/ /\ rankingResults' = rankingResults \cup
                {[run |-> r, queryId |-> runs[r].queryId,
                  candidateCount |-> runs[r].ranking.candidateCount,
                  top10 |-> runs[r].ranking.rankedProducts]}
          /\ runs' = [runs EXCEPT ![r] = Advance(runs[r], "persistRanking")]
       \/ /\ runs' = [runs EXCEPT ![r] =
                        Throw(runs[r], "persistRanking", Error("rankingResult.create failed"))]
          /\ UNCHANGED rankingResults
    /\ UNCHANGED <<status, parsedIntent, searchLog, resolveVars, rankVars, libVars>>

\* prisma.query.update({status: "COMPLETED"}) after persistResults
SetCompleted(r) ==
    /\ runs[r].pc = "setCompleted"
    /\ \/ /\ status' = "COMPLETED"
          /\ runs' = [runs EXCEPT ![r] = Advance(runs[r], "status:COMPLETED")]
       \/ /\ runs' = [runs EXCEPT ![r] =
                        Throw(runs[r], "status:COMPLETED", Error("update failed"))]
          /\ UNCHANGED status
    /\ UNCHANGED <<parsedIntent, rankingResults, searchLog, resolveVars, rankVars, libVars>>

\* logSearch({status: "completed"}) and return
LogCompleted(r) ==
    LogAndReturn(r, "logCompleted", "logSearch:completed",
                 runs[r].ranking.candidateCount, Len(runs[r].ranking.rankedProducts))

\* catch block: prisma.query.update({status: "FAILED"}).catch(() => {}); the
\* update fails when there is no row or when the store fails
CatchSetFailed(r) ==
    /\ runs[r].pc = "catchSetFailed"
    /\ \E storeOk \in BOOLEAN :
          /\ status' = IF storeOk /\ runs[r].queryId = ExistingQuery THEN "FAILED" ELSE status
          /\ runs' = [runs EXCEPT ![r] =
                IF SwallowedUpdate(storeOk /\ runs[r].queryId = ExistingQuery) = "resolved"
                THEN Advance(runs[r], "status:FAILED")
                ELSE [runs[r] EXCEPT !.pc = "rejected", !.steps = Append(@, "status:FAILED")]]
    /\ UNCHANGED <<parsedIntent, rankingResults, searchLog, resolveVars, rankVars, libVars>>

\* catch block: logSearch({status: "failed"}) and return the failure value
CatchLog(r) ==
    /\ runs[r].pc = "catchLog"
    /\ \E storeOk \in BOOLEAN :
          /\ searchLog' = searchLog \cup {[run |-> r, status |-> "logSearch:failed"]}
          /\ runs' = [runs EXCEPT ![r] =
                IF logSearch(storeOk) = "resolved"
                THEN [Advance(runs[r], "logSearch:failed") EXCEPT
                        !.result = FailureResult(runs[r].queryId, runs[r].thrown,
                                                 Len(runs[r].steps))]
                ELSE [runs[r] EXCEPT !.pc = "rejected",
                                     !.steps = Append(@, "logSearch:failed")]]
    /\ UNCHANGED <<status, parsedIntent, rankingResults, resolveVars, rankVars, libVars>>

Init ==
    /\ ResolveIdle /\ RankIdle /\ LibIdle
    /\ status = "PENDING"
    /\ parsedIntent = NoIntent
    /\ rankingResults = {}
    /\ searchLog = {}
    /\ runs = [r \in Runs |-> RunIdle]

Next ==
    \E r \in Runs :
        \/ Start(r) \/ FetchQuery(r) \/ SetProcessing(r) \/ ParseIntent(r)
        \/ StoreIntent(r) \/ GenerateCandidates(r) \/ CompleteEmpty(r) \/ LogEmpty(r)
        \/ ResolveEntitiesStep(r) \/ ExtractEvidence(r) \/ AnalyzeIngredients(r)
        \/ RankCandidatesStep(r) \/ PersistProducts(r) \/ PersistSources(r)
        \/ PersistEvidence(r) \/ PersistRanking(r) \/ SetCompleted(r) \/ LogCompleted(r)
        \/ CatchSetFailed(r) \/ CatchLog(r)

Spec == Init /\ [][Next]_vars

----------------------------------------------------------------------------
(* Claims about runPipeline                                                *)

Terminal == {"COMPLETED", "FAILED"}

\* C1: once a status write of COMPLETED or FAILED has been made for a Query,
\* no later write of any runPipeline invocation changes its status.
C1_TerminalStatusFinal == [][(status \in Terminal) => (status' = status)]_vars

IsPipelineResult(res, queryId) ==
    /\ res.queryId = queryId
    /\ res.success \in BOOLEAN
    /\ res.candidateCount \in Nat /\ res.top10Count \in Nat /\ res.durationMs \in Nat
    /\ res.error.defined = ~res.success

\* C2: whatever collaborator fails, runPipeline resolves to a PipelineResult
\* value and never rejects to its caller.
C2_NeverRejects ==
    \A r \in DOMAIN runs :
        /\ runs[r].pc # "rejected"
        /\ runs[r].pc = "done" => IsPipelineResult(runs[r].result, runs[r].queryId)

\* the first invocation returned a failure result although the FAILED status
\* write failed as well (no other invocation has started)
C2_Witness ==
    /\ runs # <<>> /\ runs[1].pc = "done" /\ ~runs[1].result.success
    /\ runs[1].queryId = ExistingQuery /\ status # "FAILED"
    /\ \A q \in DOMAIN runs : q # 1 => runs[q].pc = "idle"

\* what has been executed after the step that threw
AfterThrow(run) == SubSeq(run.steps, run.thrownAt + 1, Len(run.steps))

IsPrefix(s, t) == Len(s) <= Len(t) /\ SubSeq(t, 1, Len(s)) = s

\* C3: if a step of runPipeline throws, no later pipeline step is executed,
\* a status write of FAILED is attempted and its failure swallowed, and the
\* result has success=false, candidateCount=0, top10Count=0 and the message
\* of the triggering error (a thrown value that is not an Error has no
\* message: the result then carries "Unknown error").
C3_FailureAbortsAndReports ==
    \A r \in DOMAIN runs :
        runs[r].thrown.thrown =>
            /\ runs[r].pc \in {"catchSetFailed", "catchLog", "done"}
            /\ IsPrefix(AfterThrow(runs[r]), <<"status:FAILED", "logSearch:failed">>)
            /\ runs[r].pc = "done" =>
                  /\ AfterThrow(runs[r]) = <<"status:FAILED", "logSearch:failed">>
                  /\ runs[r].result.success = FALSE
                  /\ runs[r].result.candidateCount = 0
                  /\ runs[r].result.top10Count = 0
                  /\ runs[r].result.error.defined
                  /\ runs[r].thrown.isError =>
                        runs[r].result.error.message = runs[r].thrown.message
                  /\ ~runs[r].thrown.isError =>
                        runs[r].result.error.message = "Unknown error"

\* an invocation whose rankingResult.create threw has returned, and its
\* FAILED write did not reach the row
C3_Witness ==
    \E r \in DOMAIN runs :
        /\ runs[r].pc = "done" /\ runs[r].thrown.thrown
        /\ runs[r].steps[runs[r].thrownAt] = "persistRanking"
        /\ runs[r].result.error.message = "rankingResult.create failed"
        /\ status = "PROCESSING"

MainOrder == <<"start", "findUnique", "status:PROCESSING", "parseIntent", "storeIntent",
               "generateCandidates", "resolveEntities", "extractEvidence",
               "analyzeIngredients", "rankCandidates", "persistProducts",
               "persistSources", "persistEvidence", "persistRanking",
               "status:COMPLETED", "logSearch:completed">>

EmptyOrder == <<"start", "findUnique", "status:PROCESSING", "parseIntent", "storeIntent",
                "generateCandidates", "status:COMPLETED", "logSearch:completed_empty">>

\* the steps executed inside the try block
TrySteps(run) ==
    IF run.thrown.thrown THEN SubSeq(run.steps, 1, run.thrownAt) ELSE run.steps

\* C4: in every run the steps happen in the order PROCESSING write,
\* parseIntent, intent write, generateCandidates, resolveEntities,
\* extractEvidence, rankCandidates, persistence, COMPLETED write; with at
\* least one candidate COMPLETED is never written before the ranking result
\* has been created.
C4_StepOrder ==
    \A r \in DOMAIN runs :
        /\ IF runs[r].generated > 0 THEN IsPrefix(TrySteps(runs[r]), MainOrder)
           ELSE IF runs[r].generated = 0 THEN IsPrefix(TrySteps(runs[r]), EmptyOrder)
           ELSE IsPrefix(TrySteps(runs[r]), MainOrder)
        /\ (runs[r].generated > 0 /\ "status:COMPLETED" \in Range(runs[r].steps)) =>
              \E row \in rankingResults : row.run = r

\* an invocation with candidates has written COMPLETED
C4_Witness ==
    \E r \in DOMAIN runs :
        /\ runs[r].generated > 0 /\ runs[r].pc = "done" /\ runs[r].result.success
        /\ "status:COMPLETED" \in Range(runs[r].steps)
        /\ status = "COMPLETED"

LaterStages == {"resolveEntities", "extractEvidence", "analyzeIngredients",
                "rankCandidates", "persistProducts", "persistSources",
                "persistEvidence", "persistRanking"}

EmptyOutcome(r) ==
    /\ "status:COMPLETED" \in Range(runs[r].steps)
    /\ [run |-> r, status |-> "logSearch:completed_empty"] \in searchLog
    /\ runs[r].result.success
    /\ runs[r].result.candidateCount = 0 /\ runs[r].result.top10Count = 0
    /\ "status:FAILED" \notin Range(runs[r].steps)

\* C5 as stated: whenever generateCandidates returns zero candidates,
\* runPipeline writes COMPLETED, logs "completed_empty", returns success=true
\* with zero counts, calls none of the later stages and never writes FAILED.
C5_EmptyAlwaysCompletes ==
    \A r \in DOMAIN runs :
        runs[r].generated = 0 =>
            /\ Range(runs[r].steps) \cap LaterStages = {}
            /\ "status:FAILED" \notin Range(runs[r].steps)
            /\ runs[r].pc = "done" => EmptyOutcome(r)

\* C5 amended: with zero candidates none of the later stages is called; and
\* unless the COMPLETED status write itself fails, COMPLETED is written,
\* "completed_empty" is logged, the result is success=true with zero counts
\* and FAILED is never written.
C5_EmptyCompletesUnlessWriteFails ==
    \A r \in DOMAIN runs :
        runs[r].generated = 0 =>
            /\ Range(runs[r].steps) \cap LaterStages = {}
            /\ ~runs[r].thrown.thrown => "status:FAILED" \notin Range(runs[r].steps)
            /\ (runs[r].pc = "done" /\ ~runs[r].thrown.thrown) => EmptyOutcome(r)
            /\ runs[r].thrown.thrown => runs[r].steps[runs[r].thrownAt] = "status:COMPLETED"

\* an invocation with zero candidates returned success
C5_Witness ==
    \E r \in DOMAIN runs :
        /\ runs[r].generated = 0 /\ runs[r].pc = "done" /\ runs[r].result.success
        /\ status = "COMPLETED"

----------------------------------------------------------------------------
(* computeScores on one candidate: rankCandidates given a single candidate *)

\* evidence items: platforms, sentiments, source urls and tags vary
ScoreItems == <<
    [sentiment |-> "positive", platform |-> "reddit", sourceUrl |-> "u1",
     themes |-> << <<"s","o","f","t">> >>, claimTags |-> << <<"l","o","w","_","c","o","s","t">> >>,
     quote |-> "q1"],
    [sentiment |-> "negative", platform |-> "reddit", sourceUrl |-> "u2",
     themes |-> << <<"h","a","r","d">> >>, claimTags |-> <<>>, quote |-> "q2"],
    [sentiment |-> "negative", platform |-> "web", sourceUrl |-> "u3",
     themes |-> <<>>, claimTags |-> <<>>, quote |-> "q3"],
    [sentiment |-> "neutral", platform |-> "youtube", sourceUrl |-> "u1",
     themes |-> <<>>, claimTags |-> << <<"S","l","i","m">> >>, quote |-> "q4"] >>

\* copies[i] copies of item i, item after item
EvidenceOf(copies) ==
    Flatten([i \in 1..Len(ScoreItems) |-> [k \in 1..copies[i] |-> ScoreItems[i]]])

ScoredCandidate(m) == [RankCandidate(1) EXCEPT !.mentionCount = m]

InitScore ==
    /\ OrchIdle /\ ResolveIdle /\ LibIdle
    /\ kpc = "start"
    /\ \E m \in 0..MaxScoreMentions, copies \in [1..Len(ScoreItems) -> 0..MaxCopies] :
          /\ kCandidates = <<ScoredCandidate(m)>>
          /\ kEvidence = [key \in {EvidenceKey(ScoredCandidate(m))} |-> EvidenceOf(copies)]
    /\ kIntent \in Intents
    /\ kTop10 = <<>> /\ kResult = NoRanking

SpecScore == InitScore /\ [][NextRank]_vars

Percent == 0..100

\* round(0.30*queryFit + 0.25*redditEndorsement + 0.15*socialProofCoverage
\*       + 0.15*riskScore + 0.15*confidenceScore) from reported values
WeightedOverall(sc) ==
    Round(30 * sc.queryFit + 25 * sc.redditEndorsement
          + 15 * (sc.socialProofCoverage + sc.riskScore + sc.confidenceScore), 100)

\* C11: every dimension reported by computeScores and overall are integers
\* in [0,100], and overall is within 1 of the weighted sum of the reported
\* dimensions, rounded.
C11_ScoresInRange ==
    \A i \in 1..Len(kTop10) :
        LET sc == kTop10[i].scores
        IN /\ sc.queryFit \in Percent /\ sc.redditEndorsement \in Percent
           /\ sc.socialProofCoverage \in Percent /\ sc.riskScore \in Percent
           /\ sc.confidenceScore \in Percent /\ sc.overall \in Percent
           /\ sc.overall - WeightedOverall(sc) \in {-1, 0, 1}

\* a candidate with a capped mention bonus was scored on evidence that is
\* mostly complaints (the risk score is clamped at 0), and its overall is
\* not the rounded weighted sum of its reported dimensions
C11_Witness ==
    /\ kpc = "done" /\ Len(kTop10) = 1
    /\ kCandidates[1].mentionCount > 10
    /\ kTop10[1].scores.riskScore = 0
    /\ kTop10[1].scores.overall # WeightedOverall(kTop10[1].scores)

----------------------------------------------------------------------------
(* Retriever utilities: checkRateLimit                                     *)

Platforms == {"reddit", "serpapi"}

\* log.filter((t) => now - t < windowMs)
Prune(log, t, window) == SelectSeq(log, LAMBDA x : t - x < window)

\* a checkRateLimit that records the request even when it is refused
RecordCall_Always(pruned, t, maxReq) == Append(pruned, t)

\* lines 18-23: the log after the call, given the pruned log
RecordCall(pruned, t, maxReq) ==
    IF Len(pruned) >= maxReq THEN pruned ELSE Append(pruned, t)

PermittedCount ==
    Cardinality({c \in Platforms \X (1..MaxPermitted) : c[2] <= Len(permitted[c[1]])})

InitLimit ==
    /\ PipelineIdle /\ retry = RetryIdle /\ intentCall = IntentIdle /\ GenVarsIdle
    /\ BreakerIdle /\ BucketIdle /\ evCall = EvIdle
    /\ now = 0
    /\ requestLog = [p \in Platforms |-> <<>>]
    /\ maxRequests \in 0..MaxRequestsArg
    /\ windowMs \in 0..MaxWindowArg
    /\ permitted = [p \in Platforms |-> <<>>]
    /\ lastCheck = NoCheck

\* time passes between two calls
Tick ==
    /\ now < MaxTime
    /\ now' = now + 1
    /\ UNCHANGED <<requestLog, maxRequests, windowMs, permitted, lastCheck,
                   retry, intentCall, orchVars, resolveVars, rankVars, genVars, breakerVars, bucketVars, evCall>>

\* checkRateLimit(platform, maxRequests, windowMs)
CheckRateLimit(platform) ==
    LET pruned == Prune(requestLog[platform], now, windowMs)
        result == ~(Len(pruned) >= maxRequests)
        logAfter == RecordCall(pruned, now, maxRequests)
    IN /\ PermittedCount < MaxPermitted
       /\ requestLog' = [requestLog EXCEPT ![platform] = logAfter]
       /\ permitted' = IF result THEN [permitted EXCEPT ![platform] = Append(@, now)]
                                 ELSE permitted
       /\ lastCheck' = [platform |-> platform, at |-> now, result |-> result,
                        before |-> permitted[platform],
                        logBefore |-> requestLog[platform], logAfter |-> logAfter]
       /\ UNCHANGED <<now, maxRequests, windowMs, retry, intentCall,
                      orchVars, resolveVars, rankVars, genVars, breakerVars, bucketVars, evCall>>

NextLimit == Tick \/ \E platform \in Platforms : CheckRateLimit(platform)

SpecLimit == InitLimit /\ [][NextLimit]_vars

\* the permitted calls in s that are less than windowMs old at time t
Recent(s, t) == {i \in 1..Len(s) : t - s[i] < windowMs}

\* C12: a call returns true exactly when fewer than maxRequests previously
\* permitted calls are less than windowMs old; no window of length windowMs
\* holds more than maxRequests permitted calls; a denied call records nothing.
C12_RateLimitWindow ==
    /\ lastCheck # NoCheck =>
          /\ lastCheck.result = (Cardinality(Recent(lastCheck.before, lastCheck.at)) < maxRequests)
          /\ ~lastCheck.result =>
                /\ Len(lastCheck.logAfter) <= Len(lastCheck.logBefore)
                /\ Range(lastCheck.logAfter) \subseteq Range(lastCheck.logBefore)
    /\ \A p \in DOMAIN permitted : \A a \in 0..MaxTime :
          Cardinality({i \in 1..Len(permitted[p]) :
                          a <= permitted[p][i] /\ permitted[p][i] < a + windowMs})
             <= maxRequests

\* with the window full, a call is permitted at the moment the oldest of the
\* two permitted calls is exactly windowMs old
C12_Witness ==
    /\ lastCheck.result /\ maxRequests = 2 /\ Len(lastCheck.before) = 2
    /\ lastCheck.at - lastCheck.before[1] = windowMs
    /\ lastCheck.at - lastCheck.before[2] < windowMs

----------------------------------------------------------------------------
(* Retriever utilities: withRetry, in lib/retrievers/utils ("utils") and   *)
(* in the scraper utilities ("scraper").  fn fails on its first            *)
(* retry.failures invocations and succeeds afterwards; the error of the    *)
(* n-th invocation is identified by n.                                     *)

RetryImpls == {"utils", "scraper"}

\* const { maxRetries = 3 } = options
MaxRetriesOf(r) == IF r.maxRetriesGiven THEN r.maxRetries ELSE DefaultMaxRetries

\* the first value of the loop variable: attempt = 0 / attempt = 1
FirstAttempt(impl) == IF impl = "utils" THEN 0 ELSE 1

\* a loop that gives up one attempt early
IsLastAttempt_OneEarly(impl, attempt, maxRetries) == attempt = maxRetries

\* attempt === maxRetries / attempt === maxRetries + 1
IsLastAttempt(impl, attempt, maxRetries) ==
    IF impl = "utils" THEN attempt = maxRetries ELSE attempt = maxRetries + 1

\* the loop condition: attempt <= maxRetries / attempt <= maxRetries + 1
InLoop(impl, attempt, maxRetries) ==
    IF impl = "utils" THEN attempt <= maxRetries ELSE attempt <= maxRetries + 1

\* the observer is given the loop variable as it is
RetryNumber_LoopVariable(impl, attempt) == attempt

\* onRetry?.(attempt + 1, error) / onRetry(attempt, error)
RetryNumber(impl, attempt) == IF impl = "utils" THEN attempt + 1 ELSE attempt

\* the values of baseDelayMs / initialDelayMs (1000 is the default) and of
\* maxDelayMs (10000 is the default; part_007 has no such option)
BaseDelays == {DefaultBaseDelayMs, 4000}
MaxDelays == {DefaultMaxDelayMs, 3000}

\* baseDelayMs * Math.pow(2, attempt) /
\* Math.min(initialDelayMs * Math.pow(2, attempt - 1), maxDelayMs)
DelayMs(r) ==
    IF r.impl = "utils" THEN r.baseDelayMs * 2^r.attempt
    ELSE Min(r.baseDelayMs * 2^(r.attempt - 1), r.maxDelayMs)

InitRetry ==
    /\ PipelineIdle /\ LimitIdle /\ intentCall = IntentIdle /\ GenVarsIdle
    /\ BreakerIdle /\ BucketIdle /\ evCall = EvIdle
    /\ \E impl \in RetryImpls, given \in BOOLEAN, maxRetries \in 0..MaxRetriesArg,
          onRetry \in BOOLEAN, failing \in 0..MaxFailures,
          baseDelayMs \in BaseDelays, maxDelayMs \in MaxDelays :
          /\ ~given => maxRetries = 0
          /\ impl = "utils" => maxDelayMs = DefaultMaxDelayMs
          /\ retry = [RetryIdle EXCEPT !.impl = impl, !.maxRetriesGiven = given,
                                       !.baseDelayMs = baseDelayMs,
                                       !.maxDelayMs = maxDelayMs,
                                       !.maxRetries = maxRetries, !.onRetry = onRetry,
                                       !.failures = failing, !.pc = "loop",
                                       !.attempt = FirstAttempt(impl)]

\* one pass of the loop: invoke fn; return its value, or rethrow on the
\* last attempt, or notify the observer and go to sleep.  When the loop
\* condition fails the throw after the loop is executed.
Attempt ==
    /\ retry.pc = "loop"
    /\ LET calls == retry.calls + 1
           failed == calls <= retry.failures
       IN retry' =
            IF ~InLoop(retry.impl, retry.attempt, MaxRetriesOf(retry))
            THEN [retry EXCEPT !.pc = "done",
                               !.outcome = [kind |-> "rejected", value |-> "", error |-> -1]]
            ELSE IF ~failed
            THEN [retry EXCEPT !.calls = calls, !.pc = "done",
                               !.outcome = [kind |-> "resolved", value |-> "ok", error |-> 0]]
            ELSE IF IsLastAttempt(retry.impl, retry.attempt, MaxRetriesOf(retry))
            THEN [retry EXCEPT !.calls = calls, !.pc = "done",
                               !.outcome = [kind |-> "rejected", value |-> "", error |-> calls]]
            ELSE [retry EXCEPT !.calls = calls, !.pc = "sleep",
                               !.slept = Append(@, DelayMs(retry)),
                               !.observed = IF retry.onRetry
                                            THEN Append(@, [attempt |-> RetryNumber(retry.impl, retry.attempt),
                                                            error |-> calls])
                                            ELSE @]
    /\ UNCHANGED <<limitVars, intentCall, orchVars, resolveVars, rankVars, genVars, breakerVars, bucketVars, evCall>>

\* the backoff sleep ends: attempt++
Wake ==
    /\ retry.pc = "sleep"
    /\ retry' = [retry EXCEPT !.pc = "loop", !.attempt = @ + 1]
    /\ UNCHANGED <<limitVars, intentCall, orchVars, resolveVars, rankVars, genVars, breakerVars, bucketVars, evCall>>

NextRetry == Attempt \/ Wake

SpecRetry == InitRetry /\ [][NextRetry]_vars

\* C13: when fn fails k times and then succeeds and maxRetries >= k,
\* withRetry returns the success value after exactly k+1 invocations of fn,
\* in both implementations.
C13_RetryUntilSuccess ==
    retry.failures <= MaxRetriesOf(retry) =>
        /\ retry.calls <= retry.failures + 1
        /\ retry.pc = "done" =>
              /\ retry.outcome.kind = "resolved" /\ retry.outcome.value = "ok"
              /\ retry.calls = retry.failures + 1

\* the scraper's withRetry returned the value on its last permitted attempt
C13_Witness ==
    /\ retry.impl = "scraper" /\ retry.pc = "done" /\ retry.outcome.kind = "resolved"
    /\ retry.failures = MaxRetriesOf(retry) /\ retry.calls = 3

\* the observer calls expected after n failed attempts that were retried
ObservedAfter(n) == [i \in 1..n |-> [attempt |-> i, error |-> i]]

\* C14: when fn always fails, withRetry invokes it exactly maxRetries+1
\* times and rejects with the error of the last invocation; onRetry is
\* called once before each re-invocation with the 1-based retry number and
\* the error that caused the retry, and never after the final failure.
C14_RetryExhausted ==
    retry.failures > MaxRetriesOf(retry) =>
        /\ retry.calls <= MaxRetriesOf(retry) + 1
        /\ retry.onRetry =>
              retry.observed = ObservedAfter(IF retry.pc = "done" THEN retry.calls - 1
                                                                    ELSE retry.calls)
        /\ ~retry.onRetry => retry.observed = <<>>
        /\ retry.pc = "done" =>
              /\ retry.outcome.kind = "rejected"
              /\ retry.calls = MaxRetriesOf(retry) + 1
              /\ retry.outcome.error = retry.calls
              /\ Len(retry.observed) = IF retry.onRetry THEN MaxRetriesOf(retry) ELSE 0

\* withRetry of lib/retrievers/utils gave up after two observed retries
C14_Witness ==
    /\ retry.impl = "utils" /\ retry.pc = "done" /\ retry.outcome.kind = "rejected"
    /\ retry.maxRetriesGiven /\ retry.maxRetries = 2 /\ Len(retry.observed) = 2

\* C22: the delay slept before retry number n is min(maxDelay, base *
\* 2^(n-1)): the delays double from the base delay and never exceed the
\* maximum delay, in both implementations of withRetry.
C22_BackoffCapped ==
    \A n \in 1..Len(retry.slept) :
        /\ retry.slept[n] = Min(retry.maxDelayMs, retry.baseDelayMs * 2^(n - 1))
        /\ retry.slept[n] <= retry.maxDelayMs

----------------------------------------------------------------------------
(* Intent parser: parseIntent.  generateJSON returns JSON.parse of the     *)
(* LLM's text, so the response is any JSON value; JavaScript values are    *)
(* records tagged with their type.                                         *)

JsUndefined == [type |-> "undefined"]
JsNull == [type |-> "null"]
JsNumber(n) == [type |-> "number", n |-> n]
JsString(chars) == [type |-> "string", chars |-> chars]
JsArray(items) == [type |-> "array", items |-> items]
JsObject(fields) == [type |-> "object", fields |-> fields]

\* !v is false
Truthy(v) ==
    CASE v.type \in {"undefined", "null"} -> FALSE
      [] v.type = "number" -> v.n # 0
      [] v.type = "string" -> v.chars # <<>>
      [] OTHER -> TRUE

\* v.length < n for a v that is neither null nor undefined
LengthBelow(v, n) ==
    CASE v.type = "array" -> Len(v.items) < n
      [] v.type = "string" -> Len(v.chars) < n
      [] OTHER -> FALSE

Chars(str) ==
    CASE str = "best " -> <<"b","e","s","t"," ">>
      [] str = " reddit" -> <<" ","r","e","d","d","i","t">>
      [] str = " review" -> <<" ","r","e","v","i","e","w">>
      [] str = " recommendation" -> <<" ","r","e","c","o","m","m","e","n","d","a","t","i","o","n">>
      [] str = "top " -> <<"t","o","p"," ">>
      [] str = " vs" -> <<" ","v","s">>
      [] str = " buying guide" -> <<" ","b","u","y","i","n","g"," ","g","u","i","d","e">>

\* new Date().getFullYear(), as text
FullYear == <<"2","0","2","6">>

\* generateFallbackTerms(rawQuery)
generateFallbackTerms(rawQuery) ==
    LET base == Trim(rawQuery)
    IN << base,
          Chars("best ") \o base,
          base \o Chars(" reddit"),
          base \o Chars(" review"),
          base \o Chars(" recommendation"),
          Chars("top ") \o base \o <<" ">> \o FullYear,
          base \o Chars(" vs"),
          base \o Chars(" buying guide") >>

\* { useCase: rawQuery, constraints: [], mustHaves: [], niceToHaves: [] }
DefaultIntent(rawQuery) ==
    JsObject([useCase |-> rawQuery, constraints |-> <<>>, mustHaves |-> <<>>,
              niceToHaves |-> <<>>])

\* the catch block of parseIntent
FullFallback(rawQuery) ==
    [kind |-> "resolved",
     intent |-> DefaultIntent(rawQuery),
     seedTerms |-> JsArray(generateFallbackTerms(rawQuery)),
     inferredCategory |-> JsString(<<"g","e","n","e","r","a","l">>)]

\* !result.seedTerms || result.seedTerms.length < 5
NeedsFallbackTerms(seedTerms) ==
    ~Truthy(seedTerms) \/ LengthBelow(seedTerms, MinSeedTerms)

\* parseIntent(rawQuery) when generateJSON settles with response.  Reading
\* a property of null throws, and so does creating a property on a
\* primitive value (module code is strict): both end in the catch block.
parseIntent(rawQuery, response) ==
    IF response.kind \in {"reject", "null", "primitive"}
    THEN FullFallback(rawQuery)
    ELSE [kind |-> "resolved",
          seedTerms |-> IF NeedsFallbackTerms(response.seedTerms)
                        THEN JsArray(generateFallbackTerms(rawQuery))
                        ELSE response.seedTerms,
          intent |-> IF ~Truthy(response.intent)
                     THEN DefaultIntent(rawQuery) ELSE response.intent,
          inferredCategory |-> IF ~Truthy(response.inferredCategory)
                               THEN JsString(<<"g","e","n","e","r","a","l">>)
                               ELSE response.inferredCategory]

RawQueries == { <<"d","e","s","k">>, <<" ","d","e","s","k"," "," ">>, <<>>, <<" ">> }

SeedTermValues ==
    {JsUndefined, JsNull, JsNumber(7), JsNumber(0), JsObject(<<>>),
     JsString(<<>>), JsString(<<"d","e","s","k","s"," ","l","a","m","p","s">>)}
    \cup {JsArray([i \in 1..n |-> <<"t">>]) : n \in 0..MaxSeedTerms}

IntentValues ==
    {JsUndefined, JsNull, JsObject(<<>>), JsString(<<"d","e","s","k">>),
     JsObject([useCase |-> <<"w","o","r","k">>, constraints |-> <<>>,
               mustHaves |-> << <<"c","h","e","a","p">> >>, niceToHaves |-> <<>>])}

CategoryValues ==
    {JsUndefined, JsNull, JsString(<<>>), JsString(<<"d","e","s","k","s">>)}

\* what generateJSON settles with: a rejection (the call failed or the text
\* was not JSON), or a JSON value: null, a primitive, or an object or array
\* with any, all or none of the three fields
IntentResponses ==
    {[kind |-> k] : k \in {"reject", "null", "primitive"}}
    \cup {[kind |-> "object", seedTerms |-> st, intent |-> it, inferredCategory |-> c] :
            st \in SeedTermValues, it \in IntentValues, c \in CategoryValues}

InitIntent ==
    /\ PipelineIdle /\ LimitIdle /\ retry = RetryIdle /\ GenVarsIdle /\ BreakerIdle /\ BucketIdle /\ evCall = EvIdle
    /\ \E rawQuery \in RawQueries, response \in IntentResponses :
          intentCall = [IntentIdle EXCEPT !.pc = "called", !.rawQuery = rawQuery,
                                          !.response = response]

\* parseIntent runs to its return
ParseIntentStep ==
    /\ intentCall.pc = "called"
    /\ intentCall' = [intentCall EXCEPT
                         !.pc = "done",
                         !.result = parseIntent(intentCall.rawQuery, intentCall.response)]
    /\ UNCHANGED <<limitVars, retry, orchVars, resolveVars, rankVars, genVars, breakerVars, bucketVars, evCall>>

NextIntent == ParseIntentStep

SpecIntent == InitIntent /\ [][NextIntent]_vars

\* the number of seed terms a value holds: a list holds its entries,
\* anything else holds none
SeedCount(v) == IF v.type = "array" THEN Len(v.items) ELSE 0

Missing(v) == v.type \in {"undefined", "null"}

ResponseField(response, field) ==
    IF response.kind = "object" THEN response[field] ELSE JsUndefined

\* C15: parseIntent never rejects; the result has at least 5 seed terms, a
\* defined intent and a defined inferredCategory; fewer than 5 (or no) seed
\* terms from the LLM give exactly the fallback terms of the raw query, a
\* missing intent gives the default intent, a missing inferredCategory gives
\* "general", and a failed call gives all three defaults.
C15_ParseIntentDefaults ==
    intentCall.pc = "done" =>
        LET res == intentCall.result
            query == intentCall.rawQuery
            response == intentCall.response
        IN /\ res.kind = "resolved"
           /\ SeedCount(res.seedTerms) >= MinSeedTerms
           /\ ~Missing(res.intent) /\ ~Missing(res.inferredCategory)
           /\ SeedCount(ResponseField(response, "seedTerms")) < MinSeedTerms =>
                 res.seedTerms = JsArray(generateFallbackTerms(query))
           /\ Missing(ResponseField(response, "intent")) =>
                 res.intent = DefaultIntent(query)
           /\ Missing(ResponseField(response, "inferredCategory")) =>
                 res.inferredCategory = JsString(<<"g","e","n","e","r","a","l">>)
           /\ response.kind = "reject" => res = FullFallback(query)

----------------------------------------------------------------------------
(* Candidate generator: generateCandidates, extractProductsFromMentions,   *)
(* extractBatch and aggregateProducts.  A mention is a record of its       *)
(* platform and a serial number; brand and model are character sequences.  *)

\* String(n) for a non-negative integer
RECURSIVE String(_)
String(n) ==
    LET digit == <<"0","1","2","3","4","5","6","7","8","9">>[(n % 10) + 1]
    IN IF n < 10 THEN <<digit>> ELSE String(n \div 10) \o <<digit>>

\* `${ref.brand.toLowerCase()}|${ref.model.toLowerCase()}` with the case of
\* the model left as it is
ProductKey_ModelCase(ref) == toLowerCase(ref.brand) \o <<"|">> \o ref.model

\* `${ref.brand.toLowerCase()}|${ref.model.toLowerCase()}`
ProductKey(ref) == toLowerCase(ref.brand) \o <<"|">> \o toLowerCase(ref.model)

\* one iteration of the loop of aggregateProducts; productMap is the list
\* of the Map's values in insertion order
AggregateRef(productMap, ref) ==
    LET key == ProductKey(ref)
        hits == {k \in 1..Len(productMap) : ProductKey(productMap[k]) = key}
        source == String(ref.sourceIndex)
    IN IF hits # {}
       THEN LET k == CHOOSE k \in hits : TRUE
                existing == productMap[k]
            IN [productMap EXCEPT ![k] =
                  [existing EXCEPT
                     !.mentionCount = @ + 1,
                     !.sources = IF source \in Range(@) THEN @ ELSE Append(@, source)]]
       ELSE Append(productMap, [brand |-> ref.brand, model |-> ref.model,
                                category |-> ref.category, mentionCount |-> 1,
                                sources |-> <<source>>])

RECURSIVE AggregateLoop(_, _, _)
AggregateLoop(productMap, rawRefs, k) ==
    IF k > Len(rawRefs) THEN productMap
    ELSE AggregateLoop(AggregateRef(productMap, rawRefs[k]), rawRefs, k + 1)

\* aggregateProducts(rawRefs)
aggregateProducts(rawRefs) == SortByMentionsDesc(AggregateLoop(<<>>, rawRefs, 1))

\* v ?? ... takes the right-hand side
Nullish(v) == v.type \in {"undefined", "null"}

\* p && p.brand && p.model && typeof p.brand === "string" && typeof p.model === "string"
IsProductRef(item) ==
    /\ item.type = "object"
    /\ Truthy(item.fields.brand) /\ Truthy(item.fields.model)
    /\ item.fields.brand.type = "string" /\ item.fields.model.type = "string"

RawRef(item) ==
    [brand |-> item.fields.brand.chars, model |-> item.fields.model.chars,
     category |-> item.fields.category, sourceIndex |-> item.fields.sourceIndex]

\* extractBatch when generateJSON settles with response: a rejection, a
\* null result and a products value without filter() all end in the catch
extractBatch(response) ==
    IF response.kind \in {"reject", "null"} THEN <<>>
    ELSE IF Nullish(response.products) THEN <<>>
    ELSE IF response.products.type # "array" THEN <<>>
    ELSE LET kept == SelectSeq(response.products.items, IsProductRef)
         IN [k \in 1..Len(kept) |-> RawRef(kept[k])]

\* allProducts.push(...products) that keeps only the last chunk
PushAll_Overwrite(allProducts, products) == products

\* allProducts.push(...products)
PushAll(allProducts, products) == allProducts \o products

\* mentions.slice(i, i + BATCH_SIZE)
Batch(mentions, i) ==
    [k \in 1..(Min(Len(mentions), i + BATCH_SIZE) - i) |-> mentions[i + k]]

MentionsOf(platform, n) == [k \in 1..n |-> [platform |-> platform, id |-> k]]

\* the early return for an empty mention list
EmptyGeneration ==
    [kind |-> "resolved", candidates |-> <<>>, mentions |-> <<>>,
     stats |-> [totalMentions |-> 0, redditMentions |-> 0, webMentions |-> 0,
                tiktokMentions |-> 0, amazonMentions |-> 0, sephoraMentions |-> 0,
                uniqueCandidates |-> 0]]

\* the final return; redditMentions, amazonMentions, sephoraMentions and
\* tiktokResult.mentions are the empty lists declared in generateCandidates
Generation(candidates, allMentions, webMentions) ==
    [kind |-> "resolved", candidates |-> candidates, mentions |-> allMentions,
     stats |-> [totalMentions |-> Len(allMentions), redditMentions |-> 0,
                webMentions |-> Len(webMentions), tiktokMentions |-> 0,
                amazonMentions |-> 0, sephoraMentions |-> 0,
                uniqueCandidates |-> Len(candidates)]]

RefItem(brand, model, sourceIndex) ==
    JsObject([brand |-> brand, model |-> model, category |-> "earbuds",
              sourceIndex |-> sourceIndex])

Sony == JsString(<<"S","o">>)
SonyLower == JsString(<<"s","o">>)
Bose == JsString(<<"B","o">>)
ModelX == JsString(<<"X","1">>)
ModelXLower == JsString(<<"x","1">>)

\* what generateJSON settles with for one chunk
ChunkResponses ==
    {[kind |-> "reject"], [kind |-> "null"]}
    \cup {[kind |-> "object", products |-> ps] :
            ps \in {JsUndefined, JsNumber(7), JsArray(<<>>),
                    JsArray(<<RefItem(Sony, ModelX, 0)>>),
                    JsArray(<<RefItem(Bose, ModelX, 1), RefItem(SonyLower, ModelXLower, 1),
                              RefItem(Sony, ModelX, 1)>>),
                    JsArray(<<JsNull, RefItem(Sony, JsNull, 0), RefItem(JsNumber(7), ModelX, 0),
                              RefItem(JsString(<<>>), ModelX, 0), RefItem(Bose, ModelXLower, 2)>>)}}

MentionCounts ==
    {c * BATCH_SIZE + d : c \in 0..(MaxChunks - 1), d \in {0, 1}} \cup {MaxChunks * BATCH_SIZE}

\* what an adapter settles with
AdapterOutcomes(platform, counts) ==
    {[kind |-> "reject"]} \cup {[kind |-> "ok", mentions |-> MentionsOf(platform, n)] : n \in counts}

InitGen ==
    /\ PipelineIdle /\ LimitIdle /\ retry = RetryIdle /\ intentCall = IntentIdle /\ BreakerIdle /\ BucketIdle /\ evCall = EvIdle
    /\ agg = AggIdle
    /\ \E web \in AdapterOutcomes("web", MentionCounts),
          reddit \in AdapterOutcomes("reddit", 0..MaxRedditMentions) :
          gen = [GenIdle EXCEPT !.pc = "retrieving",
                                !.adapters = [web |-> web, reddit |-> reddit]]

\* generateCandidates from the settling of retrieveWebMentions to the first
\* call of generateJSON, or to the early return
RetrieveMentions ==
    /\ gen.pc = "retrieving"
    /\ LET webMentions == IF gen.adapters.web.kind = "ok"
                          THEN gen.adapters.web.mentions ELSE <<>>
           allMentions == webMentions
       IN gen' = IF Len(allMentions) = 0
                 THEN [gen EXCEPT !.pc = "done", !.result = EmptyGeneration]
                 ELSE [gen EXCEPT !.pc = "extracting", !.webMentions = webMentions,
                                  !.allMentions = allMentions, !.i = 0]
    /\ UNCHANGED <<agg, limitVars, retry, intentCall, orchVars, resolveVars, rankVars, breakerVars, bucketVars, evCall>>

\* one iteration of the loop of extractProductsFromMentions, and after the
\* last one the aggregation and the return of generateCandidates
ExtractChunk ==
    /\ gen.pc = "extracting"
    /\ \E response \in ChunkResponses :
          LET products == extractBatch(response)
              allProducts == PushAll(gen.allProducts, products)
              i == gen.i + BATCH_SIZE
              chunks == Append(gen.chunks, [batch |-> Batch(gen.allMentions, gen.i),
                                            response |-> response])
          IN gen' = IF i < Len(gen.allMentions)
                    THEN [gen EXCEPT !.i = i, !.allProducts = allProducts,
                                     !.chunks = chunks]
                    ELSE [gen EXCEPT !.pc = "done", !.i = i,
                                     !.allProducts = allProducts, !.chunks = chunks,
                                     !.result = Generation(aggregateProducts(allProducts),
                                                           gen.allMentions, gen.webMentions)]
    /\ UNCHANGED <<agg, limitVars, retry, intentCall, orchVars, resolveVars, rankVars, breakerVars, bucketVars, evCall>>

NextGen == RetrieveMentions \/ ExtractChunk

SpecGen == InitGen /\ [][NextGen]_vars

\* the mentions an adapter returned: none when it failed
Returned(outcome) == IF outcome.kind = "ok" THEN outcome.mentions ELSE <<>>

\* C16: generateCandidates aggregates the mentions of all adapters: the
\* returned mentions are those of the web adapter followed by those of the
\* reddit adapter or the other way round, stats.webMentions and
\* stats.redditMentions are the numbers of mentions the two adapters
\* returned, and stats.totalMentions is the length of the returned list.
C16_AggregatesAllAdapters ==
    gen.pc = "done" =>
        LET web == Returned(gen.adapters.web)
            reddit == Returned(gen.adapters.reddit)
        IN /\ gen.result.mentions \in {web \o reddit, reddit \o web}
           /\ gen.result.stats.webMentions = Len(web)
           /\ gen.result.stats.redditMentions = Len(reddit)
           /\ gen.result.stats.totalMentions = Len(gen.result.mentions)

\* the LLM call of a chunk failed
ChunkFailed(chunk) == chunk.response.kind = "reject"

\* what a chunk contributes: nothing when its LLM call failed
Contribution(chunk) == IF ChunkFailed(chunk) THEN <<>> ELSE extractBatch(chunk.response)

RECURSIVE Contributions(_, _)
Contributions(chunks, k) ==
    IF k > Len(chunks) THEN <<>>
    ELSE Contribution(chunks[k]) \o Contributions(chunks, k + 1)

RECURSIVE Batches(_, _)
Batches(chunks, k) ==
    IF k > Len(chunks) THEN <<>> ELSE chunks[k].batch \o Batches(chunks, k + 1)

\* C18: a failed chunk or a failed web adapter never makes generateCandidates
\* reject: the call resolves, every chunk of the mentions is processed, the
\* candidates are the aggregation of what the chunks that did not fail
\* contributed, a failed web adapter contributes no mention, and when every
\* chunk failed there are no candidates but all retrieved mentions.
C18_FailuresDoNotReject ==
    gen.pc = "done" =>
        /\ gen.result.kind = "resolved"
        /\ gen.adapters.web.kind = "reject" => gen.result.mentions = <<>>
        /\ gen.adapters.web.kind = "ok" =>
              /\ gen.result.mentions = gen.adapters.web.mentions
              /\ Batches(gen.chunks, 1) = gen.adapters.web.mentions
              /\ \A k \in 1..Len(gen.chunks) :
                    Len(gen.chunks[k].batch) \in 1..BATCH_SIZE
        /\ gen.result.candidates = aggregateProducts(Contributions(gen.chunks, 1))
        /\ (\A k \in 1..Len(gen.chunks) : ChunkFailed(gen.chunks[k])) =>
              gen.result.candidates = <<>>

\* a failed chunk next to a chunk that contributed references
C18_Witness ==
    /\ gen.pc = "done" /\ gen.result.kind = "resolved"
    /\ \E j, k \in 1..Len(gen.chunks) :
          /\ j < k
          /\ Contribution(gen.chunks[j]) # <<>>
          /\ ChunkFailed(gen.chunks[k])
          /\ \E l \in (k + 1)..Len(gen.chunks) : Contribution(gen.chunks[l]) # <<>>
    /\ Len(gen.result.candidates) >= 2

----------------------------------------------------------------------------
(* aggregateProducts on its own: every list of up to MaxRefs references    *)

RefBrands == {<<"S","o">>, <<"s","o">>, <<"B","o">>}
RefModels == {<<"X","1">>, <<"x","1">>}
RefSources == 0..1

RawProductRefs ==
    {[brand |-> b, model |-> mo, category |-> "earbuds", sourceIndex |-> si] :
       b \in RefBrands, mo \in RefModels, si \in RefSources}

InitAggregate ==
    /\ PipelineIdle /\ LimitIdle /\ retry = RetryIdle /\ intentCall = IntentIdle /\ BreakerIdle /\ BucketIdle /\ evCall = EvIdle
    /\ gen = GenIdle
    /\ \E rawRefs \in SeqsUpTo(RawProductRefs, MaxRefs) :
          agg = [AggIdle EXCEPT !.pc = "called", !.rawRefs = rawRefs]

\* aggregateProducts runs to its return
AggregateProducts ==
    /\ agg.pc = "called"
    /\ agg' = [agg EXCEPT !.pc = "done", !.result = aggregateProducts(agg.rawRefs)]
    /\ UNCHANGED <<gen, limitVars, retry, intentCall, orchVars, resolveVars, rankVars, breakerVars, bucketVars, evCall>>

NextAggregate == AggregateProducts

SpecAggregate == InitAggregate /\ [][NextAggregate]_vars

\* the key of the claim: lowercase(brand) + "|" + lowercase(model)
KeyOf(x) == toLowerCase(x.brand) \o <<"|">> \o toLowerCase(x.model)

\* key, count and source set of every candidate
Summary(candidates) ==
    {[key |-> KeyOf(candidates[k]), mentionCount |-> candidates[k].mentionCount,
      sources |-> Range(candidates[k].sources)] : k \in 1..Len(candidates)}

Orders(n) == {f \in [1..n -> 1..n] : \A a, b \in 1..n : a # b => f[a] # f[b]}

\* C17: aggregateProducts returns one candidate per distinct key; its
\* mentionCount is the number of references with that key, its sources are
\* the distinct sourceIndex values of those references, the counts sum to
\* the number of references, the result is sorted by mentionCount
\* descending, and keys, counts and source sets are the same for every
\* order of the references.
C17_AggregateByKey ==
    agg.pc = "done" =>
        LET refs == agg.rawRefs
            res == agg.result
            keys == {KeyOf(refs[k]) : k \in 1..Len(refs)}
        IN /\ {KeyOf(res[k]) : k \in 1..Len(res)} = keys
           /\ Len(res) = Cardinality(keys)
           /\ \A k \in 1..Len(res) :
                 LET same == {j \in 1..Len(refs) : KeyOf(refs[j]) = KeyOf(res[k])}
                 IN /\ res[k].mentionCount = Cardinality(same)
                    /\ Range(res[k].sources) = {String(refs[j].sourceIndex) : j \in same}
                    /\ Len(res[k].sources) = Cardinality(Range(res[k].sources))
           /\ SumSeq([k \in 1..Len(res) |-> res[k].mentionCount]) = Len(refs)
           /\ \A k \in 1..(Len(res) - 1) : res[k].mentionCount >= res[k + 1].mentionCount
           /\ \A f \in Orders(Len(refs)) :
                 Summary(aggregateProducts([k \in 1..Len(refs) |-> refs[f[k]]])) = Summary(res)

\* two references that differ in case and in source share a candidate,
\* which the sort moves in front of a candidate that was seen first
C17_Witness ==
    /\ agg.pc = "done" /\ Len(agg.rawRefs) = 3 /\ Len(agg.result) = 2
    /\ agg.result[1].mentionCount = 2 /\ Len(agg.result[1].sources) = 2
    /\ KeyOf(agg.rawRefs[1]) = KeyOf(agg.result[2])
    /\ agg.rawRefs[2].brand # agg.rawRefs[3].brand
    /\ agg.rawRefs[2].model # agg.rawRefs[3].model

----------------------------------------------------------------------------
(* Scraper utilities: CircuitBreaker.  failures maps a source to its       *)
(* record { count, lastFailure } or to NoRecord.                           *)

\* now - record.lastFailure >= this.resetTimeMs
WindowElapsed_AtBoundary(record, t) == t - record.lastFailure >= resetTimeMs

\* now - record.lastFailure > this.resetTimeMs
WindowElapsed(record, t) == t - record.lastFailure > resetTimeMs

\* the Map after recordFailure(source) at time t
recordFailure(map, source, t) ==
    LET record == IF map[source].present THEN map[source]
                  ELSE [present |-> TRUE, count |-> 0, lastFailure |-> t]
        count == IF WindowElapsed(record, t) THEN 1 ELSE record.count + 1
    IN [map EXCEPT ![source] = [present |-> TRUE, count |-> count, lastFailure |-> t]]

\* the Map after recordSuccess(source)
recordSuccess(map, source) == [map EXCEPT ![source] = NoRecord]

\* the value isDisabled(source) returns at time t
isDisabled(map, source, t) ==
    IF ~map[source].present THEN FALSE
    ELSE IF WindowElapsed(map[source], t) THEN FALSE
    ELSE map[source].count >= threshold

\* an isDisabled that leaves the Map as it is
AfterIsDisabled_KeepsRecord(map, source, t) == map

\* the Map after isDisabled(source) at time t (auto-reset after timeout)
AfterIsDisabled(map, source, t) ==
    IF map[source].present /\ WindowElapsed(map[source], t)
    THEN [map EXCEPT ![source] = NoRecord]
    ELSE map

\* the clock moves by a millisecond or by the whole reset time
TimeSteps == {1, resetTimeMs}

InitBreaker == PipelineIdle /\ LimitIdle /\ retry = RetryIdle
               /\ intentCall = IntentIdle /\ GenVarsIdle /\ BreakerIdle /\ BucketIdle /\ evCall = EvIdle

TimePasses(d) ==
    /\ used.advances < MaxAdvances
    /\ clock' = clock + d
    /\ used' = [used EXCEPT !.advances = @ + 1]
    /\ UNCHANGED <<failures, failureLog, lastCall, retrieval,
                   limitVars, retry, intentCall, genVars, orchVars, resolveVars, rankVars,
                   bucketVars, evCall>>

Called(op, source, result, after) ==
    [op |-> op, source |-> source, at |-> clock, result |-> result,
     before |-> failures, after |-> after, logBefore |-> failureLog]

\* circuitBreaker.recordFailure(source)
RecordFailure(source) ==
    /\ used.calls < MaxBreakerCalls
    /\ failures' = recordFailure(failures, source, clock)
    /\ failureLog' = [failureLog EXCEPT ![source] = Append(@, clock)]
    /\ lastCall' = Called("recordFailure", source, FALSE, failures')
    /\ used' = [used EXCEPT !.calls = @ + 1]
    /\ UNCHANGED <<clock, retrieval,
                   limitVars, retry, intentCall, genVars, orchVars, resolveVars, rankVars,
                   bucketVars, evCall>>

\* circuitBreaker.recordSuccess(source)
RecordSuccess(source) ==
    /\ used.calls < MaxBreakerCalls
    /\ failures' = recordSuccess(failures, source)
    /\ failureLog' = [failureLog EXCEPT ![source] = <<>>]
    /\ lastCall' = Called("recordSuccess", source, FALSE, failures')
    /\ used' = [used EXCEPT !.calls = @ + 1]
    /\ UNCHANGED <<clock, retrieval,
                   limitVars, retry, intentCall, genVars, orchVars, resolveVars, rankVars,
                   bucketVars, evCall>>

\* circuitBreaker.isDisabled(source)
IsDisabled(source) ==
    /\ used.calls < MaxBreakerCalls
    /\ failures' = AfterIsDisabled(failures, source, clock)
    /\ lastCall' = Called("isDisabled", source, isDisabled(failures, source, clock), failures')
    /\ used' = [used EXCEPT !.calls = @ + 1]
    /\ UNCHANGED <<clock, failureLog, retrieval,
                   limitVars, retry, intentCall, genVars, orchVars, resolveVars, rankVars,
                   bucketVars, evCall>>

NextBreaker ==
    \/ \E d \in TimeSteps : TimePasses(d)
    \/ \E source \in Sources :
          RecordFailure(source) \/ RecordSuccess(source) \/ IsDisabled(source)

SpecBreaker == InitBreaker /\ [][NextBreaker]_vars

FiveMinutes == 5 * 60 * 1000

\* the last n entries of log are within five minutes of one another, each
\* of the one before it
CloseRun(log, n) ==
    /\ Len(log) >= n
    /\ \A k \in (Len(log) - n + 2)..Len(log) : log[k] - log[k - 1] <= FiveMinutes

\* C20: recordFailure sets the count to 1 when more than 5 minutes passed
\* since the last recorded failure and increments it otherwise; recordSuccess
\* deletes the record; isDisabled returns true exactly when a record exists
\* with count >= 5 and at most 5 minutes passed since its last failure, so
\* only after 5 failures with no success in between, each within 5 minutes
\* of the previous one; no call changes the state of another source.
C20_CircuitBreaker ==
    lastCall.op # "none" =>
        LET source == lastCall.source
            old == lastCall.before[source]
            new == lastCall.after[source]
        IN /\ lastCall.op = "recordFailure" =>
                 /\ new.present /\ new.lastFailure = lastCall.at
                 /\ new.count = IF old.present /\ lastCall.at - old.lastFailure > FiveMinutes
                                 THEN 1
                                 ELSE IF old.present THEN old.count + 1 ELSE 1
           /\ lastCall.op = "recordSuccess" => ~new.present
           /\ lastCall.op = "isDisabled" =>
                 /\ lastCall.result = (/\ old.present
                                        /\ old.count >= 5
                                        /\ lastCall.at - old.lastFailure <= FiveMinutes)
                 /\ lastCall.result =>
                       /\ CloseRun(lastCall.logBefore[source], 5)
                       /\ lastCall.at - lastCall.logBefore[source][Len(lastCall.logBefore[source])]
                             <= FiveMinutes
           /\ \A other \in Sources \ {source} : lastCall.after[other] = lastCall.before[other]

\* isDisabled returns true for one source while another source has failures
\* recorded, exactly five minutes after the fifth failure
C20_Witness ==
    /\ lastCall.op = "isDisabled" /\ lastCall.result
    /\ lastCall.at - lastCall.before[lastCall.source].lastFailure = FiveMinutes
    /\ \E other \in Sources \ {lastCall.source} : lastCall.before[other].present

----------------------------------------------------------------------------
(* The circuit breaker over unbounded time: a behaviour has finitely many  *)
(* calls, and time does not stop while a source is disabled.               *)

MaxLiveCalls == 6

LiveSources == {"amazon", "ewg"}

\* isDisabled(source) would return true now
Open(source) == isDisabled(failures, source, clock)

\* five minutes pass while some source is disabled
TimePassesWhileOpen ==
    /\ \E source \in Sources : Open(source)
    /\ clock' = clock + resetTimeMs
    /\ UNCHANGED <<failures, failureLog, lastCall, used, retrieval,
                   limitVars, retry, intentCall, genVars, orchVars, resolveVars, rankVars,
                   bucketVars, evCall>>

NextBreakerLive ==
    \/ \E d \in TimeSteps : TimePasses(d)
    \/ TimePassesWhileOpen
    \/ /\ used.calls < MaxLiveCalls
       /\ \E source \in LiveSources :
             RecordFailure(source) \/ RecordSuccess(source) \/ IsDisabled(source)

SpecBreakerLive == InitBreaker /\ [][NextBreakerLive]_vars /\ WF_vars(TimePassesWhileOpen)

\* an isDisabled call made more than five minutes after the last recorded
\* failure returns false and deletes the record; a failure recorded when
\* there is no record starts at count 1
AutoReset ==
    lastCall.op # "none" =>
        LET old == lastCall.before[lastCall.source]
            new == lastCall.after[lastCall.source]
        IN /\ (/\ lastCall.op = "isDisabled"
               /\ old.present
               /\ lastCall.at - old.lastFailure > FiveMinutes)
                  => ~lastCall.result /\ ~new.present
           /\ (lastCall.op = "recordFailure" /\ ~old.present)
                  => new.present /\ new.count = 1

\* C30: a disabled source becomes usable again without an explicit reset:
\* every isDisabled call made more than 5 minutes after the last recorded
\* failure returns false and deletes the record, so that the next failure
\* starts from count 1, and once the failures stop no source stays disabled
\* forever.
C30_BreakerReopens ==
    /\ []AutoReset
    /\ \A source \in LiveSources : Open(source) ~> ~Open(source)

\* isDisabled is called for a disabled source's record more than five
\* minutes after its last failure
C30_Witness ==
    /\ lastCall.op = "isDisabled"
    /\ lastCall.before[lastCall.source].present
    /\ lastCall.before[lastCall.source].count >= threshold
    /\ lastCall.at - lastCall.before[lastCall.source].lastFailure > FiveMinutes
    /\ ~lastCall.after[lastCall.source].present

----------------------------------------------------------------------------
(* The callers of the circuit breaker: retrieveAmazonReviews and           *)
(* retrieveSephoraReviews (one search per term, then the scrapes of the    *)
(* products found) and lookupIngredient (one scrape, after a cache miss).  *)
(* One call runs at a time; the breaker's records outlive the calls.       *)

ReviewSources == {"amazon", "sephora"}

\* a search or scrape call against source begins now
AttemptAt(source, map) ==
    [kind |-> "attempt", source |-> source, at |-> clock,
     disabled |-> isDisabled(map, source, clock)]

\* retrieveAmazonReviews / retrieveSephoraReviews(searchTerms) up to its
\* first await: the check of the breaker, then the search of the first term
RetrieveReviews(source, terms) ==
    /\ retrieval.pc \in {"idle", "done"}
    /\ used.calls < MaxBreakerCalls
    /\ LET disabled == isDisabled(failures, source, clock)
           map == AfterIsDisabled(failures, source, clock)
       IN /\ failures' = map
          /\ lastCall' = Called("isDisabled", source, disabled, map)
          /\ retrieval' = IF disabled \/ terms = 0
                           THEN [pc |-> "done", source |-> source, terms |-> 0,
                                 attempt |-> [kind |-> "none"]]
                           ELSE [pc |-> "searching", source |-> source, terms |-> terms - 1,
                                 attempt |-> AttemptAt(source, map)]
    /\ used' = [used EXCEPT !.calls = @ + 1]
    /\ UNCHANGED <<clock, failureLog,
                   limitVars, retry, intentCall, genVars, orchVars, resolveVars, rankVars,
                   bucketVars, evCall>>

\* searchProducts(term) settles: on success the products are scraped (a
\* failed scrape is only logged) and recordSuccess is called, on failure
\* recordFailure; then the loop goes on to the search of the next term
SearchSettles(ok) ==
    /\ retrieval.pc = "searching"
    /\ used.calls < MaxBreakerCalls
    /\ LET source == retrieval.source
           map == IF ok THEN recordSuccess(failures, source)
                        ELSE recordFailure(failures, source, clock)
       IN /\ failures' = map
          /\ failureLog' = [failureLog EXCEPT
                               ![source] = IF ok THEN <<>> ELSE Append(@, clock)]
          /\ lastCall' = Called(IF ok THEN "recordSuccess" ELSE "recordFailure",
                                source, FALSE, map)
          /\ retrieval' = IF retrieval.terms = 0
                           THEN [retrieval EXCEPT !.pc = "done"]
                           ELSE [retrieval EXCEPT !.terms = @ - 1,
                                                  !.attempt = AttemptAt(source, map)]
    /\ used' = [used EXCEPT !.calls = @ + 1]
    /\ UNCHANGED <<clock,
                   limitVars, retry, intentCall, genVars, orchVars, resolveVars, rankVars,
                   bucketVars, evCall>>

\* lookupIngredient(ingredientName) for a name that is not cached, up to
\* its await: the check of the breaker, then the scrape
LookupIngredient ==
    /\ retrieval.pc \in {"idle", "done"}
    /\ used.calls < MaxBreakerCalls
    /\ LET disabled == isDisabled(failures, "ewg", clock)
           map == AfterIsDisabled(failures, "ewg", clock)
       IN /\ failures' = map
          /\ lastCall' = Called("isDisabled", "ewg", disabled, map)
          /\ retrieval' = IF disabled
                           THEN [pc |-> "done", source |-> "ewg", terms |-> 0,
                                 attempt |-> [kind |-> "none"]]
                           ELSE [pc |-> "scraping", source |-> "ewg", terms |-> 0,
                                 attempt |-> AttemptAt("ewg", map)]
    /\ used' = [used EXCEPT !.calls = @ + 1]
    /\ UNCHANGED <<clock, failureLog,
                   limitVars, retry, intentCall, genVars, orchVars, resolveVars, rankVars,
                   bucketVars, evCall>>

\* scrapeIngredientData settles with data, with null or with an error
ScrapeSettles(outcome) ==
    /\ retrieval.pc = "scraping"
    /\ used.calls < MaxBreakerCalls
    /\ LET map == CASE outcome = "data" -> recordSuccess(failures, "ewg")
                     [] outcome = "null" -> failures
                     [] outcome = "error" -> recordFailure(failures, "ewg", clock)
       IN /\ failures' = map
          /\ failureLog' = [failureLog EXCEPT
                               !["ewg"] = CASE outcome = "data" -> <<>>
                                            [] outcome = "null" -> @
                                            [] outcome = "error" -> Append(@, clock)]
          /\ lastCall' = CASE outcome = "data" -> Called("recordSuccess", "ewg", FALSE, map)
                            [] outcome = "null" -> lastCall
                            [] outcome = "error" -> Called("recordFailure", "ewg", FALSE, map)
          /\ used' = IF outcome = "null" THEN used ELSE [used EXCEPT !.calls = @ + 1]
    /\ retrieval' = [retrieval EXCEPT !.pc = "done"]
    /\ UNCHANGED <<clock,
                   limitVars, retry, intentCall, genVars, orchVars, resolveVars, rankVars,
                   bucketVars, evCall>>

NextRetrievers ==
    \/ \E d \in TimeSteps : TimePasses(d)
    \/ \E source \in ReviewSources, terms \in 0..MaxTerms : RetrieveReviews(source, terms)
    \/ \E ok \in BOOLEAN : SearchSettles(ok)
    \/ LookupIngredient
    \/ \E outcome \in {"data", "null", "error"} : ScrapeSettles(outcome)

SpecRetrievers == InitBreaker /\ [][NextRetrievers]_vars

\* C19: the callers check the circuit breaker before every attempt: no
\* search or scrape call against a source begins at a moment when
\* circuitBreaker.isDisabled(source) would return true, the searches of the
\* remaining terms of a call in progress included.
C19_NoAttemptWhileDisabled ==
    retrieval.attempt.kind = "attempt" => ~retrieval.attempt.disabled

----------------------------------------------------------------------------
(* Scraper rate limiter: token buckets, waitForRateLimit.  Token counts    *)
(* are in units of 1/TokenUnit token and times in milliseconds, so that    *)
(* elapsedSeconds * refillRate is a whole number of units.                 *)

\* RATE_LIMITS[domain] || { requestsPerSecond: 1, burstCapacity: 5 }:
\* burstCapacity in tokens, requestsPerSecond as units per millisecond
\* (0.5 token per second is 1 unit per millisecond)
RateConfig(domain) ==
    IF domain = "amazon.com" THEN [burstCapacity |-> 2, unitsPerMs |-> 1]
    ELSE [burstCapacity |-> 5, unitsPerMs |-> 2]

\* getBucket(domain): the Map after the call
getBucket(map, domain, t) ==
    IF map[domain].present THEN map
    ELSE [map EXCEPT ![domain] =
            [present |-> TRUE, tokens |-> RateConfig(domain).burstCapacity * TokenUnit,
             capacity |-> RateConfig(domain).burstCapacity * TokenUnit,
             refillRate |-> RateConfig(domain).unitsPerMs, lastRefill |-> t]]

\* refillBucket(bucket)
refillBucket(bucket, t) ==
    [bucket EXCEPT !.tokens = Min(bucket.capacity,
                                  bucket.tokens + (t - bucket.lastRefill) * bucket.refillRate),
                   !.lastRefill = t]

\* the test of tryConsume on the refilled bucket
HasToken(bucket) == bucket.tokens >= TokenUnit

\* bucket.tokens -= 1
Deduct(bucket) == [bucket EXCEPT !.tokens = @ - TokenUnit]

\* Math.ceil(a / b) for positive b
CeilDiv(a, b) == (a + b - 1) \div b

\* getWaitTime(bucket) on the refilled bucket, in milliseconds
getWaitTime(bucket) ==
    IF HasToken(bucket) THEN 0
    ELSE CeilDiv(TokenUnit - bucket.tokens, bucket.refillRate)

\* the clock moves by half a second or by two seconds
BucketTimeSteps == {500, 2000}

InitBuckets ==
    /\ PipelineIdle /\ LimitIdle /\ retry = RetryIdle /\ intentCall = IntentIdle
    /\ GenVarsIdle /\ BreakerIdle /\ BucketIdle /\ evCall = EvIdle

BucketTimePasses(d) ==
    /\ bucketClock.advances < MaxBucketAdvances
    /\ bucketClock' = [bucketClock EXCEPT !.now = @ + d, !.advances = @ + 1]
    /\ UNCHANGED <<buckets, waiters, evCall, limitVars, retry, intentCall, genVars,
                   breakerVars, orchVars, resolveVars, rankVars>>

Admit(clk, domain) == [clk EXCEPT !.admitted[domain] = Append(@, clk.now)]

CountCall(clk) == [clk EXCEPT !.calls = @ + 1]

\* waitForRateLimit(url) up to its return on the fast path, or up to the
\* setTimeout
EnterWait(c, domain) ==
    /\ waiters[c].pc \in {"idle", "done"}
    /\ bucketClock.calls < MaxWaitCalls
    /\ LET t == bucketClock.now
           map == getBucket(buckets, domain, t)
           refilled == refillBucket(map[domain], t)
       IN IF HasToken(refilled)
          THEN /\ buckets' = [map EXCEPT ![domain] = Deduct(refilled)]
               /\ waiters' = [waiters EXCEPT ![c] =
                                 [pc |-> "done", domain |-> domain, waited |-> FALSE,
                                  tokensBefore |-> refilled.tokens]]
               /\ bucketClock' = Admit(CountCall(bucketClock), domain)
          ELSE /\ buckets' = [map EXCEPT ![domain] = refilled]
               /\ waiters' = [waiters EXCEPT ![c] =
                                 [pc |-> "sleeping", domain |-> domain,
                                  wakeAt |-> t + getWaitTime(refilled)]]
               /\ bucketClock' = CountCall(bucketClock)
    /\ UNCHANGED <<evCall, limitVars, retry, intentCall, genVars,
                   breakerVars, orchVars, resolveVars, rankVars>>

\* the timer of waitForRateLimit fires: refill, deduct one token, return
WakeUp(c) ==
    /\ waiters[c].pc = "sleeping"
    /\ bucketClock.now >= waiters[c].wakeAt
    /\ LET domain == waiters[c].domain
           refilled == refillBucket(buckets[domain], bucketClock.now)
       IN /\ buckets' = [buckets EXCEPT ![domain] = Deduct(refilled)]
          /\ waiters' = [waiters EXCEPT ![c] =
                            [pc |-> "done", domain |-> domain, waited |-> TRUE,
                             tokensBefore |-> refilled.tokens]]
          /\ bucketClock' = Admit(bucketClock, domain)
    /\ UNCHANGED <<evCall, limitVars, retry, intentCall, genVars,
                   breakerVars, orchVars, resolveVars, rankVars>>

NextBuckets ==
    \/ \E d \in BucketTimeSteps : BucketTimePasses(d)
    \/ \E c \in Callers : (\E domain \in Domains : EnterWait(c, domain)) \/ WakeUp(c)

SpecBuckets == InitBuckets /\ [][NextBuckets]_vars

\* C21: a caller of waitForRateLimit returns only after a token was
\* available for it and deducts exactly one token: the token count of a
\* bucket is never below 0 and never above its capacity, and the callers
\* admitted in an interval of t seconds are at most C + R*t.
C21_TokenBucket ==
    /\ \A c \in Callers : waiters[c].pc = "done" => waiters[c].tokensBefore >= TokenUnit
    /\ \A domain \in Domains :
          buckets[domain].present =>
              /\ buckets[domain].tokens >= 0
              /\ buckets[domain].tokens <= RateConfig(domain).burstCapacity * TokenUnit
    /\ \A domain \in Domains :
          LET log == bucketClock.admitted[domain]
          IN \A j \in 1..Len(log) : \A k \in j..Len(log) :
                (k - j + 1) * TokenUnit <=
                    RateConfig(domain).burstCapacity * TokenUnit
                    + RateConfig(domain).unitsPerMs * (log[k] - log[j])

----------------------------------------------------------------------------
(* A further claim about persistResults                                    *)

\* C27: in every ranking result that runPipeline persists, the productId of
\* a ranked entry is the product of the candidate whose scores, rationale
\* and citations the entry carries, for every order rankCandidates produces.
C27_ProductIdOfRankedCandidate ==
    [][\A row \in rankingResults' \ rankingResults :
          \A i \in 1..Len(row.top10) :
              row.top10[i].productId = Slug(runs[row.run].resolved[row.top10[i].origin + 1])]_vars

----------------------------------------------------------------------------
(***************************************************************************)
(* extractEvidence and extractForProduct (entity-resolver.ts:430-553).     *)
(* For each of the first 30 candidates extractEvidence finds the relevant  *)
(* mentions and, when there are any, awaits extractForProduct, which sends *)
(* the first 20 of them to the LLM and maps every returned item back to a  *)
(* mention through the item's sourceIndex.  The response is JSON.parse of  *)
(* the LLM's text and is not validated.  findRelevantMentions is a filter  *)
(* over the mentions' text; its result is an input here.                   *)
(***************************************************************************)

MaxRelevant == 22
EvidenceTop == 30
MentionCap == 20
QuoteCap == 150

MentionPlatforms == <<"reddit", "web", "youtube">>

\* the i-th mention: its own URL, one of the platforms
Mention(i) == [url |-> <<"m", "/">> \o String(i), platform |-> MentionPlatforms[(i % 3) + 1]]

RelevantMentions(n) == [i \in 1..n |-> Mention(i)]

RelevantCounts == {0, 1, 2, MentionCap, MaxRelevant}

EvidenceCandidateLists ==
    LET sony == [brand |-> <<"S","o","n","y">>, model |-> <<"X","M","5">>]
        bose == [brand |-> <<"B","o","s","e">>, model |-> <<"Q","C">>]
    IN {<<sony>>, <<sony, bose>>}

Quote(n) == JsString([i \in 1..n |-> "q"])

QuoteValues == {JsUndefined, JsNumber(7), Quote(3), Quote(QuoteCap), Quote(QuoteCap + 1)}

SourceIndexValues ==
    {JsUndefined, JsNull, JsNumber(0 - 1), JsNumber(0), JsNumber(MentionCap - 1),
     JsNumber(MentionCap), JsString(<<"1">>)}

EvidenceObject(quote, sourceIndex) ==
    JsObject([sentiment |-> JsString(<<"+">>), themes |-> JsArray(<<>>), claimTags |-> JsArray(<<>>),
              quote |-> quote, sourceIndex |-> sourceIndex])

EvidenceItems == {EvidenceObject(q, i) : q \in QuoteValues, i \in SourceIndexValues} \cup {JsNull}

PairedItems ==
    {EvidenceObject(Quote(3), JsNumber(0)), EvidenceObject(Quote(QuoteCap + 1), JsNumber(1)),
     EvidenceObject(JsUndefined, JsNumber(0))}

\* what generateJSON gives: a rejection, or any JSON value
EvidenceResponses ==
    {[kind |-> "reject"], [kind |-> "value", value |-> JsNull]}
    \cup {[kind |-> "value", value |-> JsObject([evidence |-> e])] :
            e \in {JsUndefined, JsNull, JsString(<<"x">>), JsArray(<<>>)}
                  \cup {JsArray(<<a>>) : a \in EvidenceItems}
                  \cup {JsArray(<<a, b>>) : a \in PairedItems, b \in PairedItems}}

\* capped[index]: the element of a JavaScript array under a property key
ElementAt(capped, index) ==
    IF index.type = "number" /\ index.n \in 0..(Len(capped) - 1)
    THEN [found |-> TRUE, mention |-> capped[index.n + 1]]
    ELSE IF index.type = "string" /\ \E k \in 0..(Len(capped) - 1) : index.chars = String(k)
    THEN [found |-> TRUE,
          mention |-> capped[(CHOOSE k \in 0..(Len(capped) - 1) : index.chars = String(k)) + 1]]
    ELSE [found |-> FALSE]

\* the callback of result.evidence.map throws a TypeError on this item
ItemThrows(ev) ==
    \/ Nullish(ev)
    \/ ev.fields.quote.type # "string"

ProductRef(candidate) == candidate.brand \o <<" ">> \o candidate.model

MapItem(candidate, capped, ev) ==
    LET at == ElementAt(capped, ev.fields.sourceIndex)
    IN [productRef |-> ProductRef(candidate),
        sentiment |-> ev.fields.sentiment,
        themes |-> ev.fields.themes,
        claimTags |-> ev.fields.claimTags,
        quote |-> Slice(ev.fields.quote.chars, 0, QuoteCap),
        sourceUrl |-> IF at.found THEN at.mention.url ELSE <<>>,
        platform |-> IF at.found THEN at.mention.platform ELSE "web"]

extractForProduct(candidate, mentions, response) ==
    LET capped == Slice(mentions, 0, MentionCap)
    IN IF response.kind = "reject" THEN <<>>
       ELSE IF Nullish(response.value) THEN <<>>
       ELSE IF Nullish(response.value.fields.evidence) THEN <<>>
       ELSE IF response.value.fields.evidence.type # "array" THEN <<>>
       ELSE LET items == response.value.fields.evidence.items
            IN IF \E k \in 1..Len(items) : ItemThrows(items[k]) THEN <<>>
               ELSE [k \in 1..Len(items) |-> MapItem(candidate, capped, items[k])]

InitEvidence ==
    /\ \E candidates \in EvidenceCandidateLists :
         \E counts \in [1..Len(candidates) -> RelevantCounts] :
            evCall = [pc |-> "run",
                      candidates |-> Slice(candidates, 0, EvidenceTop),
                      relevant |-> counts,
                      next |-> 1,
                      sent |-> <<>>,
                      evidenceMap |-> <<>>]
    /\ PipelineIdle /\ LimitIdle /\ retry = RetryIdle /\ intentCall = IntentIdle
    /\ GenVarsIdle /\ BreakerIdle /\ BucketIdle

\* one turn of the loop for a candidate without relevant mentions
NoRelevantMentions ==
    /\ evCall.pc = "run"
    /\ evCall.relevant[evCall.next] = 0
    /\ evCall' = [evCall EXCEPT !.next = @ + 1,
                                !.sent = Append(@, <<>>),
                                !.evidenceMap = Append(@, [key |-> EvidenceKey(evCall.candidates[evCall.next]),
                                                           evidence |-> <<>>]),
                                !.pc = IF evCall.next = Len(evCall.candidates) THEN "done" ELSE "run"]
    /\ UNCHANGED <<limitVars, retry, intentCall, orchVars, resolveVars, rankVars, genVars,
                   breakerVars, bucketVars>>

\* one turn of the loop for a candidate with relevant mentions
ExtractForProductStep ==
    /\ evCall.pc = "run"
    /\ evCall.relevant[evCall.next] > 0
    /\ \E response \in EvidenceResponses :
         LET candidate == evCall.candidates[evCall.next]
             mentions == RelevantMentions(evCall.relevant[evCall.next])
         IN evCall' = [evCall EXCEPT !.next = @ + 1,
                                     !.sent = Append(@, Slice(mentions, 0, MentionCap)),
                                     !.evidenceMap = Append(@, [key |-> EvidenceKey(candidate),
                                                                evidence |-> extractForProduct(candidate, mentions, response)]),
                                     !.pc = IF evCall.next = Len(evCall.candidates) THEN "done" ELSE "run"]
    /\ UNCHANGED <<limitVars, retry, intentCall, orchVars, resolveVars, rankVars, genVars,
                   breakerVars, bucketVars>>

NextEvidence == NoRelevantMentions \/ ExtractForProductStep

SpecEvidence == InitEvidence /\ [][NextEvidence]_vars

\* C26: every evidence item returned by extractEvidence carries the URL and
\* the platform of one of the (at most 20) mentions sent to the LLM for its
\* candidate, names that candidate, and has a quote of at most 150
\* characters, whatever sourceIndex the LLM returned.
C26_EvidenceTracesToMention ==
    evCall.pc \in {"run", "done"} =>
        \A c \in 1..Len(evCall.evidenceMap) :
            LET entry == evCall.evidenceMap[c]
            IN /\ Len(evCall.sent[c]) <= MentionCap
               /\ \A k \in 1..Len(entry.evidence) :
                    LET item == entry.evidence[k]
                    IN /\ item.productRef = ProductRef(evCall.candidates[c])
                       /\ Len(item.quote) <= QuoteCap
                       /\ \E i \in 1..Len(evCall.sent[c]) :
                            /\ item.sourceUrl = evCall.sent[c][i].url
                            /\ item.platform = evCall.sent[c][i].platform

(* Further claims about resolveEntities                                    *)

Phase2Ran == rResponse.kind # "none"

\* the LLM step fails: the call rejects, or applying the groups throws at a
\* group that has a canonical entry but no mergeIndices to iterate
Phase2Failed ==
    \/ rResponse.kind = "reject"
    \/ /\ rResponse.groupsDefined
       /\ \E n \in 1..Len(rResponse.groups) :
             /\ rResponse.groups[n].canonicalIndex \in 0..(Len(rSent) - 1)
             /\ ~rResponse.groups[n].mergeIndicesDefined

\* C23: when the phase 2 LLM step fails, by a rejected call or by a
\* response whose groups throw part-way, resolveEntities returns phase 1's
\* result unchanged: the same candidates in the same order with the
\* mentionCount and sources phase 1 gave them.
C23_FailureReturnsPhase1 ==
    (rpc = "done" /\ Phase2Ran /\ Phase2Failed) => rOutput = rFuzzy

\* positions of the phase 1 result that were listed in the prompt
SentPositions == {i \in 1..Len(rFuzzy) : rFuzzy[i] \in Range(rSent)}

SameProduct(a, b) == a.brand = b.brand /\ a.model = b.model

\* some merge group of the response lists the 0-based index idx
ListedInMergeIndices(idx) ==
    /\ rResponse.groupsDefined
    /\ \E n \in 1..Len(rResponse.groups) :
          /\ rResponse.groups[n].mergeIndicesDefined
          /\ idx \in Range(rResponse.groups[n].mergeIndices)

\* C24: phase 2 runs only when phase 1 yields more than 20 candidates; the
\* candidates sent to the LLM service are the 80 candidates of the phase 1
\* result with the highest mentionCount; every candidate outside them is in
\* the output unchanged, and none of the 80 is dropped unless a merge group
\* lists it in mergeIndices.
C24_TopSliceToLLM ==
    rpc = "done" =>
        /\ Phase2Ran <=> Len(rFuzzy) > 20
        /\ Phase2Ran =>
              /\ Len(rSent) = Min(80, Len(rFuzzy))
              /\ Cardinality(SentPositions) = Len(rSent)
              /\ \A i \in SentPositions : \A j \in (1..Len(rFuzzy)) \ SentPositions :
                    rFuzzy[i].mentionCount >= rFuzzy[j].mentionCount
              /\ \A j \in (1..Len(rFuzzy)) \ SentPositions : rFuzzy[j] \in Range(rOutput)
              /\ \A i \in SentPositions :
                    \/ \E k \in 1..Len(rOutput) : SameProduct(rOutput[k], rFuzzy[i])
                    \/ ListedInMergeIndices(i - 1)

\* the groups phase 1 forms of the input
InputGroups == FuzzyGroups(<<>>, rInput, 1, Len(rInput))

\* position of the earliest member with the highest mentionCount
BestMember(group) ==
    CHOOSE k \in 1..Len(group) :
        /\ \A l \in 1..Len(group) : group[k].mentionCount >= group[l].mentionCount
        /\ \A l \in 1..(k - 1) : group[l].mentionCount < group[k].mentionCount

\* C25: in phase 1 every group collapses to one candidate with the brand,
\* model, variant and category of the member with the highest mentionCount
\* (the earliest one on a tie), the sum of the group's mentionCounts and the
\* deduplicated union of the group's sources.
C25_GroupCollapses ==
    rpc = "fuzzy" =>
        LET groups == InputGroups
        IN /\ Len(rFuzzy) = Len(groups)
           /\ \A g \in 1..Len(rFuzzy) :
              LET group == groups[g]
                  best == group[BestMember(group)]
                  out == rFuzzy[g]
              IN /\ out.brand = best.brand /\ out.model = best.model
                 /\ out.variant = best.variant /\ out.category = best.category
                 /\ out.mentionCount = SumSeq([k \in 1..Len(group) |-> group[k].mentionCount])
                 /\ Range(out.sources) = UNION {Range(group[k].sources) : k \in 1..Len(group)}
                 /\ Len(out.sources) = Cardinality(Range(out.sources))

\* a group whose second member has more mentions than its first, under
\* another name
C25_Witness ==
    /\ rpc = "fuzzy" /\ Len(rInput) = 2 /\ Len(rFuzzy) = 1
    /\ rInput[1].mentionCount < rInput[2].mentionCount
    /\ rInput[1].brand # rInput[2].brand
    /\ rFuzzy[1].brand = rInput[2].brand
    /\ rFuzzy[1].mentionCount = rInput[1].mentionCount + rInput[2].mentionCount

\* `${c.brand}|${c.model}`, the key of extractEvidence and rankCandidates
RawKey(c) == c.brand \o <<"|">> \o c.model

\* C28: for an input of two or more candidates no two candidates of the
\* output of resolveEntities have the same normalized brand+model, hence
\* their "brand|model" keys are distinct.
C28_DistinctNormalizedNames ==
    (rpc = "done" /\ Len(rInput) >= 2) =>
        /\ Cardinality({normalize(rOutput[i].brand, rOutput[i].model) :
                           i \in 1..Len(rOutput)}) = Len(rOutput)
        /\ Cardinality({RawKey(rOutput[i]) : i \in 1..Len(rOutput)}) = Len(rOutput)

\* two inputs with one normalized name under different spellings, and an
\* output of several candidates
C28_Witness ==
    /\ rpc = "done" /\ Len(rOutput) >= 2
    /\ \E i, j \in 1..Len(rInput) :
          /\ i # j /\ SameNorm(rInput[i], rInput[j])
          /\ RawKey(rInput[i]) # RawKey(rInput[j])

\* the partition of the candidates that phase 1 makes of a list
PartitionOf(candidates) ==
    LET groups == FuzzyGroups(<<>>, candidates, 1, Len(candidates))
    IN {Range(groups[g]) : g \in 1..Len(groups)}

\* C29: phase 1 does not depend on the order of its input: every
\* permutation of the candidate list is partitioned into the same groups.
C29_OrderIndependent ==
    (rpc = "fuzzy" /\ Len(rInput) \in 2..(MaxResolveLen + 1)) =>
        \A f \in Orders(Len(rInput)) :
            PartitionOf([k \in 1..Len(rInput) |-> rInput[f[k]]]) = PartitionOf(rInput)

====
